---- MODULE Spec2Model ----
(***************************************************************************)
(* A model of the binmap mapper combinators (package bin).                 *)
(*                                                                         *)
(* A Mapper is a value with a Read and a Write operation.  Mappers are     *)
(* modelled as records (one shape per constructor); the calling goroutines *)
(* are modelled by a call stack of frames per thread, one frame per        *)
(* Mapper.Read / Mapper.Write invocation in progress.  A step of a thread  *)
(* executes the code of the frame on top of its stack up to the next call  *)
(* or return.                                                              *)
(***************************************************************************)
EXTENDS Integers, Sequences, FiniteSets, TLC

(* ------------------------------ bounds -------------------------------- *)

\* goroutines calling Read/Write concurrently
NThreads == 2
\* byte values on the wire and in the targets are 0..MaxByte
MaxByte == 2
\* longest MapSequence, and the number of caller variables a, b, c, ...
MaxSeq == 3
\* most rows of a table and most elements of a column
MaxRows == 2
\* columns of a table
NCols == 2
\* calls a caller makes on one table
MaxCalls == 2
\* most elements of a slice, and the largest count a caller gives
MaxLen == 2
Threads == 1..NThreads
Bytes == 0..MaxByte
Targets == 1..MaxSeq
Columns == 1..NCols

(* ------------------------------ errors -------------------------------- *)

\* the nil error
Nil == "nil"
\* no value returned (yet) by a callee
None == "none"
EOF == "EOF"
ErrShortWrite == "short write"
ErrUnexpectedEOF == "unexpected EOF"
ErrNilReadWrite == "nil read source or write target"
ErrUnbalancedTable == "unbalanced data table"
ErrEndOfSource == "at the end of the source buffer in writeNext"
ErrPanic == "panic during Read or Write"
ErrOverflow == "binary: varint overflows a 64-bit integer"
\* the errors binary.Read and binary.Write return for a value they cannot size
ErrReadInvalidType == "binary.Read: invalid type"
ErrWriteNotFixedSize == "binary.Write: some values are not fixed-sized in type"
\* fmt.Errorf("%w: %v", w, e), and errors.Is for the errors so made
Errorf(wrapped, cause) == wrapped \o ": " \o cause
ErrorsIs(got, want) ==
  \/ got = want
  \/ \E cause \in {"testing", "shouldn't be returned"} :
       got = Errorf(want, cause)
\* errors of the callers' handlers
ErrTest == "testing"
ErrTesting == "shouldn't be returned"
ErrOther == "handler of the other direction"

\* binary.BigEndian, binary.LittleEndian
BigEndian == "big"
LittleEndian == "little"

(* ------------------------------ mappers ------------------------------- *)

\* a nil *byte, a nil Mapper, a nil handler function
NilPtr == 0
NilMapper == [kind |-> "nilmapper"]
NoHook == [h |-> "nilfunc"]

nilMapping == [kind |-> "nil"]

Byte(b) ==
  IF b = NilPtr THEN nilMapping ELSE [kind |-> "byte", t |-> b]

MapSequence(mappings) == [kind |-> "seq", ms |-> mappings]

\* DataTable(&length, MapField(&target[1], Byte), ..., MapField(&target[n], Byte))
DataTable(length, n) ==
  IF length = NilPtr THEN nilMapping ELSE [kind |-> "table", n |-> n]

\* the other constructors that bind a target; a target is NilPtr or a pointer
\* into the caller's struct obj; the element, key and value mappers of the
\* collections (mapVal, keyMapper, valMapper) are Byte
Bool(b) ==
  IF b = NilPtr THEN nilMapping ELSE [kind |-> "bool", t |-> b]

\* Int (the name Int is taken by the integers)
IntMapper(target) ==
  IF target = NilPtr THEN nilMapping ELSE [kind |-> "int", t |-> target]

Float(target) ==
  IF target = NilPtr THEN nilMapping ELSE [kind |-> "float", t |-> target]

\* Complex makes its mapper of binary.Read and binary.Write at once
Complex(target) == [kind |-> "complex", t |-> target]

\* Varint(&obj.x[target]), Uvarint(&obj.x[target])
Varint(target) ==
  IF target = NilPtr THEN nilMapping ELSE [kind |-> "varint", t |-> target]

Uvarint(target) ==
  IF target = NilPtr THEN nilMapping ELSE [kind |-> "uvarint", t |-> target]

\* a Size that binds its target without looking at it
SizeUnchecked(size) == [kind |-> "size"]

\* Size(&obj.count), a uint8
Size(size) ==
  IF size = NilPtr THEN nilMapping ELSE [kind |-> "size"]

\* FixedBytes(&obj.buf, length)
FixedBytes(buf, length) ==
  IF buf = NilPtr THEN nilMapping ELSE [kind |-> "fixedbytes", n |-> length]

\* LenBytes(&obj.buf, &obj.count)
LenBytes(buf, length) ==
  IF buf = NilPtr
    THEN nilMapping
    ELSE IF length = NilPtr THEN nilMapping ELSE [kind |-> "lenbytes"]

\* Slice(&obj.buf, count, Byte)
Slice(target, count) ==
  IF target = NilPtr THEN nilMapping ELSE [kind |-> "slice", n |-> count]

\* LenSlice(&obj.buf, &obj.count, Byte)
LenSlice(target, count) ==
  IF target = NilPtr
    THEN nilMapping
    ELSE IF count = NilPtr THEN nilMapping ELSE [kind |-> "lenslice"]

\* DynamicSlice(&obj.buf, Byte)
DynamicSlice(target) ==
  IF target = NilPtr THEN nilMapping ELSE [kind |-> "dynslice"]

\* Map(&obj.entries, Byte, Byte)
Map(target) ==
  IF target = NilPtr THEN nilMapping ELSE [kind |-> "map"]

FixedString(s, length) ==
  IF s = NilPtr THEN nilMapping ELSE [kind |-> "fixedstring", n |-> length]

NullTermString(s) ==
  IF s = NilPtr THEN nilMapping ELSE [kind |-> "nulltermstring"]

Uni16NullTermString(s) ==
  IF s = NilPtr THEN nilMapping ELSE [kind |-> "uni16nulltermstring"]

Uni16FixedString(s, wcharlen) ==
  IF s = NilPtr
    THEN nilMapping
    ELSE [kind |-> "uni16fixedstring", n |-> wcharlen]

\* DataTable(length, MapField[byte](nil, Byte)): one column, whose field
\* mapper MapField makes without looking at its target
DataTableNilField(length) ==
  IF length = NilPtr THEN nilMapping ELSE [kind |-> "nilfieldtable"]

\* Any(read, write) with a read and a write that panic
PanicMapping == [kind |-> "panic"]

\* handler functions: a BeforeReadHandler / BeforeWriteHandler (func() error)
\* or an AfterReadHandler / AfterWriteHandler (func(err error) error)
\* func(...) error { return e }
Returns(e) == [h |-> "returns", e |-> e]
\* func(err error) error { return err }
ReturnsErr == [h |-> "returnsErr"]
\* func() error { test.a, test.b = ...; return nil }
Sets(v) == [h |-> "sets", v |-> v]
\* the handlers Lock and RWLock install
MuxLock == [h |-> "Mutex.Lock"]
MuxUnlock == [h |-> "Mutex.Unlock"]
RWMuxLock == [h |-> "RWMutex.Lock"]
RWMuxUnlock == [h |-> "RWMutex.Unlock"]
RWMuxRLock == [h |-> "RWMutex.RLock"]
RWMuxRUnlock == [h |-> "RWMutex.RUnlock"]

\* the zero EventHandler{}
EventHandler ==
  [BeforeRead |-> NoHook, AfterRead |-> NoHook,
   BeforeWrite |-> NoHook, AfterWrite |-> NoHook]

NewEventHandler(mapper, handler) ==
  IF mapper = NilMapper
    THEN nilMapping
    ELSE [kind |-> "eh",
          BeforeRead |-> handler.BeforeRead, AfterRead |-> handler.AfterRead,
          BeforeWrite |-> handler.BeforeWrite, AfterWrite |-> handler.AfterWrite,
          mapper |-> mapper]

ValidateRead(mapper, validator) ==
  NewEventHandler(mapper, [EventHandler EXCEPT !.AfterRead = validator])

NormalizeWrite(mapper, normalizer) ==
  NewEventHandler(mapper, [EventHandler EXCEPT !.BeforeWrite = normalizer])

\* a Lock whose write handlers were left out
LockReadOnly(mapper) ==
  NewEventHandler(mapper,
    [EventHandler EXCEPT !.BeforeRead = MuxLock, !.AfterRead = MuxUnlock])

Lock(mapper) ==
  NewEventHandler(mapper,
    [BeforeRead |-> MuxLock, AfterRead |-> MuxUnlock,
     BeforeWrite |-> MuxLock, AfterWrite |-> MuxUnlock])

\* a RWLock that read-locks for Read as well
RWLockShared(mapper) ==
  NewEventHandler(mapper,
    [BeforeRead |-> RWMuxRLock, AfterRead |-> RWMuxRUnlock,
     BeforeWrite |-> RWMuxRLock, AfterWrite |-> RWMuxRUnlock])

RWLock(mapper) ==
  NewEventHandler(mapper,
    [BeforeRead |-> RWMuxLock, AfterRead |-> RWMuxUnlock,
     BeforeWrite |-> RWMuxRLock, AfterWrite |-> RWMuxRUnlock])

\* OnPanic(mapper, panicHandler); panicHandler is NoHook (a nil func) or a
\* func(any) error { return e }
OnPanic(mapper, panicHandler) ==
  [kind |-> "onpanic", mapper |-> mapper, handler |-> panicHandler]

\* the values the read and the write of PanicMapping panic with
PanicValue(direction) == IF direction = "R" THEN "reading" ELSE "writing"

\* mappers whose Read and Write call no other mapper
IsLeaf(m) == m.kind \in {"nil", "byte"}

(* ------------------------------- state -------------------------------- *)

VARIABLES
  th,      \* th[t]: the goroutine: its call stack, the value its last callee
           \* returned, whether a panic is unwinding it, its top-level call
  tgt,     \* the caller's variables the mappers point to
  src,     \* src[t]: the bytes left in the io.Reader thread t passed
  sink,    \* sink[t]: the bytes the io.Writer thread t passed has taken
  wcap,    \* wcap[t]: how many bytes that io.Writer takes before it fails
  mutex,   \* the sync.Mutex given to Lock: TRUE when locked
  rwmutex, \* the sync.RWMutex given to RWLock: w locked, r read locks held
  log,     \* log[t]: history, the events of the top-level call of t
  pre,     \* pre[t]: history, the state when t's top-level call started
  tbl,     \* the table: the row count *length, the columns *target, and
           \* each column's fieldReader.buf and fieldWriter.wrPtr
  order,   \* order[t]: the binary.ByteOrder thread t passed
  ncalls,  \* ncalls[t]: the calls t has completed and followed by another
  prev,    \* prev[t]: history, the call of t before the present one when
           \* that was a Write that returned nil or a Read: the state when
           \* it started, what it wrote and what it returned
  obj      \* the caller's struct the slice, map, varint and string mappers
           \* point to

vars ==
  <<th, tgt, src, sink, wcap, mutex, rwmutex, log, pre, tbl, order, ncalls, prev, obj>>

\* a call of m.Read (dir "R") or m.Write (dir "W") that has just begun; i counts
\* the children a MapSequence has invoked, err is the named result
Frame(m, dir) == [m |-> m, dir |-> dir, pc |-> "start", i |-> 0, err |-> Nil]

Top(t) == th[t].stack[Len(th[t].stack)]
Pop(s) == SubSeq(s, 1, Len(s) - 1)
Running(t) == th[t].stack # <<>>
\* the top-level call of t has returned an error value (possibly nil)
Returned(t) == th[t].stack = <<>> /\ th[t].ret # None
\* the top-level call of t ended with a panic reaching the caller
Panicked(t) == th[t].stack = <<>> /\ th[t].unwinding
\* the frame on top of t's stack is to be executed (no panic in flight)
AtTop(t, kind) ==
  /\ Running(t)
  /\ ~th[t].unwinding
  /\ Top(t).m.kind = kind

\* what a hook or a caller can observe of the stream and the variables
Snapshot(t) ==
  [tgt |-> tgt, src |-> src[t], sink |-> sink[t], tbl |-> tbl, obj |-> obj]

\* events of the history
CallEv(m, dir) == [m |-> m, dir |-> dir, ev |-> "call"]
RetEv(m, dir, e) == [e |-> e, m |-> m, dir |-> dir, ev |-> "return"]
PanicEv(m, dir) == [m |-> m, dir |-> dir, ev |-> "panic"]
\* handler h of m ran: what it could observe, its argument, what it returned
HookEv(ev, m, dir, h, obs, arg, e) ==
  [h |-> h, e |-> e, m |-> m, dir |-> dir, ev |-> ev, obs |-> obs, arg |-> arg]

ZeroTargets == [k \in Targets |-> 0]
CountTargets == [k \in Targets |-> k % (MaxByte + 1)]

\* the table of a caller whose row count is 0 and whose columns are nil
\* slices, the field mappers as MapField makes them
EmptyTable ==
  [length |-> 0, target |-> [k \in Columns |-> <<>>],
   buf |-> [k \in Columns |-> <<>>], wrPtr |-> [k \in Columns |-> 0]]

\* the struct of a caller whose slice is nil, whose count is 0, whose map is
\* empty, whose two 64-bit integers are 0 and whose string is "".  A 64-bit
\* word is three limbs, the bits 0..27, 28..55 and 56..63, an int64 being its
\* two's complement; a string is the sequence of its bytes.
EmptyObj ==
  [buf |-> <<>>, count |-> 0, entries |-> [k \in {} |-> 0],
   x |-> [k \in 1..2 |-> <<0, 0, 0>>], str |-> <<>>]

\* no call came before, or a Write that returned an error
NoCall == [dir |-> "none", ret |-> None]

\* a goroutine that has not called yet; each makes one top-level call
IdleThread ==
  [m |-> NilMapper, dir |-> "R", stack |-> <<>>, ret |-> None,
   unwinding |-> FALSE, called |-> FALSE]

Init ==
  /\ th = [t \in Threads |-> IdleThread]
  /\ tgt \in {ZeroTargets, CountTargets}
  /\ src = [t \in Threads |-> <<>>]
  /\ sink = [t \in Threads |-> <<>>]
  /\ wcap = [t \in Threads |-> 0]
  /\ mutex = FALSE
  /\ rwmutex = [w |-> FALSE, r |-> 0]
  /\ log = [t \in Threads |-> <<>>]
  /\ tbl = EmptyTable
  /\ obj = EmptyObj
  /\ pre = [t \in Threads |->
             [tgt |-> tgt, src |-> <<>>, sink |-> <<>>, tbl |-> tbl, obj |-> obj]]
  /\ order = [t \in Threads |-> BigEndian]
  /\ ncalls = [t \in Threads |-> 0]
  /\ prev = [t \in Threads |-> NoCall]

(* --------------------------- the caller ------------------------------- *)

\* err := m.Read(r, endian) with r holding the bytes rd, or
\* err := m.Write(w, endian) with w an empty writer that takes cap bytes
CallWith(t, m, dir, rd, cap, endian) ==
  /\ ~th[t].called
  /\ th' = [th EXCEPT ![t] =
              [m |-> m, dir |-> dir, stack |-> <<Frame(m, dir)>>, ret |-> None,
               unwinding |-> FALSE, called |-> TRUE]]
  /\ src' = [src EXCEPT ![t] = rd]
  /\ sink' = [sink EXCEPT ![t] = <<>>]
  /\ wcap' = [wcap EXCEPT ![t] = cap]
  /\ log' = [log EXCEPT ![t] = <<CallEv(m, dir)>>]
  /\ pre' = [pre EXCEPT ![t] =
               [tgt |-> tgt, src |-> rd, sink |-> <<>>, tbl |-> tbl, obj |-> obj]]
  /\ order' = [order EXCEPT ![t] = endian]
  /\ UNCHANGED <<tgt, mutex, rwmutex, tbl, ncalls, prev, obj>>

\* the calls of mappers that make no use of the byte order
Call(t, m, dir, rd, cap) == CallWith(t, m, dir, rd, cap, BigEndian)

\* the stack of t with the call of m pushed on it, frame n updated to f
Invoke(t, f, m) ==
  Append([th[t].stack EXCEPT ![Len(th[t].stack)] = f], Frame(m, f.dir))

(* ------------------------- primitive mappers -------------------------- *)

\* w.Write(bs) on a writer that has room for room more bytes
WriterTakes(bs, room) ==
  IF Len(bs) <= room THEN bs ELSE SubSeq(bs, 1, room)
WriterErr(bs, room) ==
  IF Len(bs) <= room THEN Nil ELSE ErrShortWrite

\* the error the Read or Write of a primitive mapper returns
LeafErr(t, m, dir) ==
  CASE m.kind = "nil" -> ErrNilReadWrite
    [] m.kind = "byte" /\ dir = "R" -> IF src[t] = <<>> THEN EOF ELSE Nil
    [] m.kind = "byte" /\ dir = "W" ->
         WriterErr(<<tgt[m.t]>>, wcap[t] - Len(sink[t]))

\* a primitive mapper runs: nilMapping, or Byte's binary.Read / binary.Write
LeafStep(t) ==
  /\ Running(t)
  /\ ~th[t].unwinding
  /\ IsLeaf(Top(t).m)
  /\ LET f == Top(t)
         m == f.m
         e == LeafErr(t, m, f.dir)
     IN /\ th' = [th EXCEPT ![t].stack = Pop(@), ![t].ret = e]
        /\ log' = [log EXCEPT ![t] = Append(@, RetEv(m, f.dir, e))]
        /\ IF m.kind = "byte" /\ f.dir = "R" /\ e = Nil
             THEN /\ tgt' = [tgt EXCEPT ![m.t] = Head(src[t])]
                  /\ src' = [src EXCEPT ![t] = Tail(@)]
             ELSE UNCHANGED <<tgt, src>>
        /\ IF m.kind = "byte" /\ f.dir = "W"
             THEN sink' = [sink EXCEPT ![t] =
                             @ \o WriterTakes(<<tgt[m.t]>>, wcap[t] - Len(@))]
             ELSE UNCHANGED sink
        /\ UNCHANGED <<wcap, mutex, rwmutex, pre, tbl, order, ncalls, prev, obj>>

\* a read or write function that panics
PanicStep(t) ==
  /\ AtTop(t, "panic")
  /\ th' = [th EXCEPT ![t].stack = Pop(@), ![t].unwinding = TRUE]
  /\ log' = [log EXCEPT ![t] = Append(@, PanicEv(Top(t).m, Top(t).dir))]
  /\ UNCHANGED <<tgt, src, sink, wcap, mutex, rwmutex, pre, tbl, order, ncalls, prev, obj>>

(* ---------------------------- MapSequence ----------------------------- *)

\* a loop that visits the children last to first
SeqChildReversed(mappings, k) == mappings[Len(mappings) + 1 - k]

\* for _, m := range mappings: the child the loop visits k-th
SeqChild(mappings, k) == mappings[k]

\* a loop that runs every child and returns the first error at the end
SeqStepRunsAll(t) ==
  /\ AtTop(t, "seq")
  /\ LET f == Top(t)
         e == th[t].ret
         first == IF f.err = Nil /\ e # None THEN e ELSE f.err
         child == SeqChild(f.m.ms, f.i + 1)
     IN /\ IF f.i < Len(f.m.ms)
             THEN /\ th' = [th EXCEPT
                      ![t].stack = Invoke(t, [f EXCEPT !.i = f.i + 1, !.err = first], child),
                      ![t].ret = None]
                  /\ log' = [log EXCEPT ![t] = Append(@, CallEv(child, f.dir))]
             ELSE /\ th' = [th EXCEPT ![t].stack = Pop(@), ![t].ret = first]
                  /\ log' = [log EXCEPT ![t] = Append(@, RetEv(f.m, f.dir, first))]
        /\ UNCHANGED <<tgt, src, sink, wcap, mutex, rwmutex, pre, tbl, order, ncalls, prev, obj>>

\* the loop of MapSequence's read and write: the child just invoked returned
\* e (None when the loop starts); a non-nil e is returned at once, else the
\* next child is invoked, and nil is returned after the last one
SeqStep(t) ==
  /\ AtTop(t, "seq")
  /\ LET f == Top(t)
         e == th[t].ret
         child == SeqChild(f.m.ms, f.i + 1)
     IN /\ IF e # None /\ e # Nil
             THEN /\ th' = [th EXCEPT ![t].stack = Pop(@)]
                  /\ log' = [log EXCEPT ![t] = Append(@, RetEv(f.m, f.dir, e))]
             ELSE IF f.i < Len(f.m.ms)
               THEN /\ th' = [th EXCEPT
                        ![t].stack = Invoke(t, [f EXCEPT !.i = f.i + 1], child),
                        ![t].ret = None]
                    /\ log' = [log EXCEPT ![t] = Append(@, CallEv(child, f.dir))]
               ELSE /\ th' = [th EXCEPT ![t].stack = Pop(@), ![t].ret = Nil]
                    /\ log' = [log EXCEPT ![t] = Append(@, RetEv(f.m, f.dir, Nil))]
        /\ UNCHANGED <<tgt, src, sink, wcap, mutex, rwmutex, pre, tbl, order, ncalls, prev, obj>>

(* ---------------------------- EventHandler ---------------------------- *)

\* locks that the goroutine holding them can take again
HookEnabledReentrant(h) == TRUE

\* a handler that takes a lock blocks until the lock can be taken (a
\* sync.RWMutex also holds back an RLock while a Lock is waiting; the model
\* lets it through, which only adds interleavings)
HookEnabled(h) ==
  CASE h.h = "Mutex.Lock" -> ~mutex
    [] h.h = "RWMutex.Lock" -> ~rwmutex.w /\ rwmutex.r = 0
    [] h.h = "RWMutex.RLock" -> ~rwmutex.w
    [] OTHER -> TRUE

\* what handler h returns when called with arg
HookRet(h, arg) ==
  CASE h.h = "returns" -> h.e
    [] h.h = "returnsErr" -> arg
    [] h.h \in {"Mutex.Unlock", "RWMutex.Unlock", "RWMutex.RUnlock"} -> arg
    [] OTHER -> Nil

\* the caller's variables after h ran
HookTgt(h) == IF h.h = "sets" THEN h.v ELSE tgt

\* a mutex Unlock leaves locked
HookMutexNeverFrees(h) ==
  CASE h.h = "Mutex.Lock" -> TRUE
    [] OTHER -> mutex

\* the mutex and the read/write mutex after h ran
HookMutex(h) ==
  CASE h.h = "Mutex.Lock" -> TRUE
    [] h.h = "Mutex.Unlock" -> FALSE
    [] OTHER -> mutex
HookRWMutex(h) ==
  CASE h.h = "RWMutex.Lock" -> [rwmutex EXCEPT !.w = TRUE]
    [] h.h = "RWMutex.Unlock" -> [rwmutex EXCEPT !.w = FALSE]
    [] h.h = "RWMutex.RLock" -> [rwmutex EXCEPT !.r = @ + 1]
    [] h.h = "RWMutex.RUnlock" -> [rwmutex EXCEPT !.r = IF @ > 0 THEN @ - 1 ELSE 0]
    [] OTHER -> rwmutex

\* h.BeforeRead in Read, h.BeforeWrite in Write; h.AfterRead, h.AfterWrite
BeforeHook(f) == IF f.dir = "R" THEN f.m.BeforeRead ELSE f.m.BeforeWrite
AfterHook(f) == IF f.dir = "R" THEN f.m.AfterRead ELSE f.m.AfterWrite

\* a deferred function that always takes the handler's result
DeferredErrOverrides(err, rerr) == rerr

\* the deferred function: rerr := h.AfterRead(err); if err != nil { return };
\* err = rerr
DeferredErr(err, rerr) == IF err # Nil THEN err ELSE rerr

\* a Read/Write that calls the mapper whatever the Before handler returned
BeforeStopsNever(e) == FALSE

\* if err = h.BeforeRead(); err != nil { return err }
BeforeStops(e) == e # Nil

\* EventHandler.Read / Write up to the call of the wrapped mapper: the Before
\* handler, if any, runs and its error is returned; otherwise the After
\* handler, if any, is deferred and h.mapper is called
EHBefore(t) ==
  /\ AtTop(t, "eh")
  /\ Top(t).pc = "start"
  /\ LET f == Top(t)
         h == BeforeHook(f)
         e == IF h = NoHook THEN Nil ELSE HookRet(h, Nil)
     IN /\ h # NoHook => HookEnabled(h)
        /\ tgt' = IF h = NoHook THEN tgt ELSE HookTgt(h)
        /\ mutex' = IF h = NoHook THEN mutex ELSE HookMutex(h)
        /\ rwmutex' = IF h = NoHook THEN rwmutex ELSE HookRWMutex(h)
        /\ LET hev == IF h = NoHook THEN <<>>
                      ELSE <<HookEv("before", f.m, f.dir, h, Snapshot(t), None, e)>>
           IN IF BeforeStops(e)
                THEN /\ th' = [th EXCEPT ![t].stack = Pop(@), ![t].ret = e]
                     /\ log' = [log EXCEPT ![t] = @ \o hev \o <<RetEv(f.m, f.dir, e)>>]
                ELSE /\ th' = [th EXCEPT
                          ![t].stack = Invoke(t, [f EXCEPT !.pc = "inner", !.err = e],
                                              f.m.mapper),
                          ![t].ret = None]
                     /\ log' = [log EXCEPT ![t] =
                                  @ \o hev \o <<CallEv(f.m.mapper, f.dir)>>]
        /\ UNCHANGED <<src, sink, wcap, pre, tbl, order, ncalls, prev, obj>>

\* EventHandler.Read / Write after the wrapped mapper returned: the deferred
\* After handler, if any, runs with the mapper's error
EHAfter(t) ==
  /\ AtTop(t, "eh")
  /\ Top(t).pc = "inner"
  /\ th[t].ret # None
  /\ LET f == Top(t)
         h == AfterHook(f)
         err == th[t].ret
         rerr == IF h = NoHook THEN Nil ELSE HookRet(h, err)
         final == IF h = NoHook THEN err ELSE DeferredErr(err, rerr)
         hev == IF h = NoHook THEN <<>>
                ELSE <<HookEv("after", f.m, f.dir, h, Snapshot(t), err, rerr)>>
     IN /\ h # NoHook => HookEnabled(h)
        /\ tgt' = IF h = NoHook THEN tgt ELSE HookTgt(h)
        /\ mutex' = IF h = NoHook THEN mutex ELSE HookMutex(h)
        /\ rwmutex' = IF h = NoHook THEN rwmutex ELSE HookRWMutex(h)
        /\ th' = [th EXCEPT ![t].stack = Pop(@), ![t].ret = final]
        /\ log' = [log EXCEPT ![t] = @ \o hev \o <<RetEv(f.m, f.dir, final)>>]
        /\ UNCHANGED <<src, sink, wcap, pre, tbl, order, ncalls, prev, obj>>

\* whether the frame has deferred its After handler
HasDeferred(f) == f.m.kind = "eh" /\ f.pc = "inner" /\ AfterHook(f) # NoHook

\* an unwinding that runs no deferred function
UnwindSkipsDeferred(t) ==
  /\ Running(t)
  /\ th[t].unwinding
  /\ th' = [th EXCEPT ![t].stack = Pop(@)]
  /\ log' = [log EXCEPT ![t] = Append(@, PanicEv(Top(t).m, Top(t).dir))]
  /\ UNCHANGED <<tgt, src, sink, wcap, mutex, rwmutex, pre, tbl, order, ncalls, prev, obj>>

\* an unwinding that hands the deferred After handler an error for the panic
UnwindPassesPanic(t) ==
  /\ Running(t)
  /\ th[t].unwinding
  /\ Top(t).m.kind # "onpanic"
  /\ LET f == Top(t)
         d == HasDeferred(f)
         h == IF d THEN AfterHook(f) ELSE NoHook
         rerr == IF d THEN HookRet(h, ErrPanic) ELSE Nil
         hev == IF d THEN <<HookEv("after", f.m, f.dir, h, Snapshot(t), ErrPanic, rerr)>>
                ELSE <<>>
     IN /\ d => HookEnabled(h)
        /\ tgt' = IF d THEN HookTgt(h) ELSE tgt
        /\ mutex' = IF d THEN HookMutex(h) ELSE mutex
        /\ rwmutex' = IF d THEN HookRWMutex(h) ELSE rwmutex
        /\ th' = [th EXCEPT ![t].stack = Pop(@)]
        /\ log' = [log EXCEPT ![t] = @ \o hev \o <<PanicEv(f.m, f.dir)>>]
        /\ UNCHANGED <<src, sink, wcap, pre, tbl, order, ncalls, prev, obj>>

\* a panic leaves the call on top of the stack: its deferred function, if it
\* has one, runs with the named result err as it stands, and the panic goes on
\* to the caller
Unwind(t) ==
  /\ Running(t)
  /\ th[t].unwinding
  /\ Top(t).m.kind # "onpanic"
  /\ LET f == Top(t)
         d == HasDeferred(f)
         h == IF d THEN AfterHook(f) ELSE NoHook
         rerr == IF d THEN HookRet(h, f.err) ELSE Nil
         hev == IF d THEN <<HookEv("after", f.m, f.dir, h, Snapshot(t), f.err, rerr)>>
                ELSE <<>>
     IN /\ d => HookEnabled(h)
        /\ tgt' = IF d THEN HookTgt(h) ELSE tgt
        /\ mutex' = IF d THEN HookMutex(h) ELSE mutex
        /\ rwmutex' = IF d THEN HookRWMutex(h) ELSE rwmutex
        /\ th' = [th EXCEPT ![t].stack = Pop(@)]
        /\ log' = [log EXCEPT ![t] = @ \o hev \o <<PanicEv(f.m, f.dir)>>]
        /\ UNCHANGED <<src, sink, wcap, pre, tbl, order, ncalls, prev, obj>>

(* ------------------------------- OnPanic ------------------------------ *)

\* a _panicHandler that returns the handler's error as it is
panicHandlerUnwrapped(r, panicHandler) ==
  LET rerr == IF panicHandler # NoHook THEN HookRet(panicHandler, r) ELSE Nil
  IN IF rerr = Nil THEN ErrPanic ELSE rerr

_panicHandler(r, panicHandler) ==
  LET rerr == IF panicHandler # NoHook THEN HookRet(panicHandler, r) ELSE Nil
  IN IF rerr = Nil THEN ErrPanic ELSE Errorf(ErrPanic, rerr)

\* OnPanic's read / write: the recovering function is deferred and the
\* wrapped mapper is called
OnPanicCall(t) ==
  /\ AtTop(t, "onpanic")
  /\ Top(t).pc = "start"
  /\ LET f == Top(t)
     IN /\ th' = [th EXCEPT
                    ![t].stack = Invoke(t, [f EXCEPT !.pc = "inner"], f.m.mapper),
                    ![t].ret = None]
        /\ log' = [log EXCEPT ![t] = Append(@, CallEv(f.m.mapper, f.dir))]
  /\ UNCHANGED <<tgt, src, sink, wcap, mutex, rwmutex, pre, tbl, order, ncalls, prev, obj>>

\* the wrapped mapper returned: recover() gives nil in the deferred function
\* and the mapper's error is returned
OnPanicReturn(t) ==
  /\ AtTop(t, "onpanic")
  /\ Top(t).pc = "inner"
  /\ th[t].ret # None
  /\ th' = [th EXCEPT ![t].stack = Pop(@)]
  /\ log' = [log EXCEPT ![t] = Append(@, RetEv(Top(t).m, Top(t).dir, th[t].ret))]
  /\ UNCHANGED <<tgt, src, sink, wcap, mutex, rwmutex, pre, tbl, order, ncalls, prev, obj>>

\* a panic reaches the call of OnPanic's read / write: the deferred function
\* recovers it and sets the named result to what _panicHandler returns
Recover(t) ==
  /\ Running(t)
  /\ th[t].unwinding
  /\ Top(t).m.kind = "onpanic"
  /\ LET f == Top(t)
         h == f.m.handler
         r == PanicValue(f.dir)
         err == _panicHandler(r, h)
         hev == IF h = NoHook THEN <<>>
                ELSE <<HookEv("recover", f.m, f.dir, h, Snapshot(t), r, HookRet(h, r))>>
     IN /\ th' = [th EXCEPT ![t].stack = Pop(@), ![t].ret = err,
                            ![t].unwinding = FALSE]
        /\ log' = [log EXCEPT ![t] = @ \o hev \o <<RetEv(f.m, f.dir, err)>>]
  /\ UNCHANGED <<tgt, src, sink, wcap, mutex, rwmutex, pre, tbl, order, ncalls, prev, obj>>

(* --------------------------- OverrideEndian --------------------------- *)

\* Any(read, write) with a read that calls m.Read(r, endian) and a write that
\* calls m.Write(w, endian), whatever byte order they are given
OverrideEndian(m, endian) ==
  [kind |-> "override", mapper |-> m, endian |-> endian]

\* every call is given the byte order the caller passed
EndianOfCaller(t) == order[t]

\* the byte order the call on top of t's stack was given: MapSequence,
\* EventHandler and OnPanic hand on the one they were given, so it is the one
\* of the nearest OverrideEndian around the call, and the one the caller
\* passed when there is none
Endian(t) ==
  LET S == th[t].stack
      over == {k \in 1..(Len(S) - 1) : S[k].m.kind = "override"}
  IN IF over = {} THEN order[t]
     ELSE S[CHOOSE k \in over : \A j \in over : j <= k].m.endian

\* the read / write of OverrideEndian: m is called, and what it returns is
\* returned
OverrideStep(t) ==
  /\ AtTop(t, "override")
  /\ LET f == Top(t)
     IN IF f.pc = "start"
          THEN /\ th' = [th EXCEPT
                          ![t].stack = Invoke(t, [f EXCEPT !.pc = "inner"], f.m.mapper),
                          ![t].ret = None]
               /\ log' = [log EXCEPT ![t] = Append(@, CallEv(f.m.mapper, f.dir))]
          ELSE /\ th[t].ret # None
               /\ th' = [th EXCEPT ![t].stack = Pop(@)]
               /\ log' = [log EXCEPT ![t] = Append(@, RetEv(f.m, f.dir, th[t].ret))]
  /\ UNCHANGED <<tgt, src, sink, wcap, mutex, rwmutex, pre, tbl, order, ncalls, prev, obj>>

(* ------------------------------ DataTable ----------------------------- *)

\* uint32(n)
Uint32(n) == ((n \div 65536) % 65536) * 65536 + (n % 65536)

\* the four bytes binary.Write makes of a uint32, and the uint32 binary.Read
\* makes of four bytes
PutUint32(endian, v) ==
  LET be == <<(v \div 16777216) % 256, (v \div 65536) % 256,
              (v \div 256) % 256, v % 256>>
  IN IF endian = BigEndian THEN be ELSE <<be[4], be[3], be[2], be[1]>>
GetUint32(endian, bs) ==
  LET be == IF endian = BigEndian THEN bs ELSE <<bs[4], bs[3], bs[2], bs[1]>>
  IN be[1] * 16777216 + be[2] * 65536 + be[3] * 256 + be[4]

\* Size(length).Read on a reader holding rd: io.ReadFull of four bytes
SizeReadErr(rd) ==
  IF rd = <<>> THEN EOF ELSE IF Len(rd) < 4 THEN ErrUnexpectedEOF ELSE Nil
SizeReadRest(rd) == IF Len(rd) < 4 THEN <<>> ELSE SubSeq(rd, 5, Len(rd))

\* an assertLen that lets a column longer than the row count pass
assertLenAtLeast(target, length) ==
  IF Uint32(Len(target)) < length THEN ErrUnbalancedTable ELSE Nil

\* fieldWriter.assertLen
assertLen(target, length) ==
  IF Uint32(Len(target)) # length THEN ErrUnbalancedTable ELSE Nil

\* for _, m := range mappers { if err := m.assertLen(l); err != nil { return err } }
AssertAll(T, n, l) ==
  LET bad == {k \in 1..n : assertLen(T.target[k], l) # Nil}
  IN IF bad = {} THEN Nil
     ELSE assertLen(T.target[CHOOSE k \in bad : \A j \in bad : k <= j], l)

\* fieldWriter.writeNext of column k on a writer that takes room bytes in
\* all; st holds the sink, the table and the error so far
writeNext(st, k, room) ==
  LET T == st.tbl
  IN IF T.wrPtr[k] < Uint32(Len(T.target[k]))
       THEN LET b == <<T.target[k][T.wrPtr[k] + 1]>>
                e == WriterErr(b, room - Len(st.sink))
            IN [sink |-> st.sink \o WriterTakes(b, room - Len(st.sink)),
                tbl |-> IF e = Nil THEN [T EXCEPT !.wrPtr[k] = @ + 1] ELSE T,
                err |-> e]
       ELSE [st EXCEPT !.err = ErrEndOfSource]

\* a loop that writes the table column by column
RECURSIVE WriteColumns(_, _, _, _, _)
WriteColumns(st, j, l, n, room) ==
  IF j >= l * n \/ st.err # Nil THEN st
  ELSE WriteColumns(writeNext(st, (j \div l) + 1, room), j + 1, l, n, room)

\* the row loop of the write: j field values are written, l rows of n fields
\* are to be
RECURSIVE WriteRows(_, _, _, _, _)
WriteRows(st, j, l, n, room) ==
  IF j >= l * n \/ st.err # Nil THEN st
  ELSE WriteRows(writeNext(st, (j % n) + 1, room), j + 1, l, n, room)

\* a write that starts every column at its first element
TableWriteRewinds(T, n, endian, out, room) ==
  LET l == T.length
      unbalanced == AssertAll(T, n, l)
      bs == PutUint32(endian, l)
      sized == [sink |-> out \o WriterTakes(bs, room - Len(out)),
                tbl |-> [T EXCEPT !.wrPtr = [k \in Columns |-> 0]],
                err |-> WriterErr(bs, room - Len(out))]
  IN IF unbalanced # Nil THEN [sink |-> out, tbl |-> T, err |-> unbalanced]
     ELSE WriteRows(sized, 0, l, n, room)

\* the write function of DataTable with n field mappers
TableWrite(T, n, endian, out, room) ==
  LET l == T.length
      unbalanced == AssertAll(T, n, l)
      bs == PutUint32(endian, l)
      sized == [sink |-> out \o WriterTakes(bs, room - Len(out)), tbl |-> T,
                err |-> WriterErr(bs, room - Len(out))]
  IN IF unbalanced # Nil THEN [sink |-> out, tbl |-> T, err |-> unbalanced]
     ELSE WriteRows(sized, 0, l, n, room)

\* fieldReader.readNext of column k; st holds the bytes left in the reader,
\* the table and the error so far
readNext(st, k) ==
  IF st.src = <<>> THEN [st EXCEPT !.err = EOF]
  ELSE [src |-> Tail(st.src),
        tbl |-> [st.tbl EXCEPT !.buf[k] = Append(@, Head(st.src))],
        err |-> Nil]

\* the row loop of the read
RECURSIVE ReadRows(_, _, _, _)
ReadRows(st, j, l, n) ==
  IF j >= l * n \/ st.err # Nil THEN st
  ELSE ReadRows(readNext(st, (j % n) + 1), j + 1, l, n)

\* for _, m := range mappers { m.apply() }
ApplyAll(T, n) ==
  [T EXCEPT !.target = [k \in Columns |-> IF k <= n THEN T.buf[k] ELSE @[k]],
            !.buf = [k \in Columns |-> IF k <= n THEN <<>> ELSE @[k]]]

\* a read that runs the apply loop whether or not the rows were read
TableReadAppliesAnyway(T, n, endian, rd) ==
  LET e == SizeReadErr(rd)
      l == GetUint32(endian, SubSeq(rd, 1, 4))
      rows == ReadRows([src |-> SizeReadRest(rd), tbl |-> [T EXCEPT !.length = l],
                        err |-> Nil], 0, l, n)
  IN IF e # Nil THEN [src |-> SizeReadRest(rd), tbl |-> T, err |-> e]
     ELSE [rows EXCEPT !.tbl = ApplyAll(rows.tbl, n)]

\* a read that empties the buffers of the columns before it reads the rows
TableReadFresh(T, n, endian, rd) ==
  LET e == SizeReadErr(rd)
      l == GetUint32(endian, SubSeq(rd, 1, 4))
      rows == ReadRows([src |-> SizeReadRest(rd),
                        tbl |-> [T EXCEPT !.length = l,
                                          !.buf = [k \in Columns |-> <<>>]],
                        err |-> Nil], 0, l, n)
  IN IF e # Nil THEN [src |-> SizeReadRest(rd), tbl |-> T, err |-> e]
     ELSE IF rows.err # Nil THEN rows
     ELSE [rows EXCEPT !.tbl = ApplyAll(rows.tbl, n)]

\* a read that puts the row count back when a row cannot be read
TableReadRestoresLength(T, n, endian, rd) ==
  LET e == SizeReadErr(rd)
      l == GetUint32(endian, SubSeq(rd, 1, 4))
      rows == ReadRows([src |-> SizeReadRest(rd), tbl |-> [T EXCEPT !.length = l],
                        err |-> Nil], 0, l, n)
  IN IF e # Nil THEN [src |-> SizeReadRest(rd), tbl |-> T, err |-> e]
     ELSE IF rows.err # Nil THEN [rows EXCEPT !.tbl.length = T.length]
     ELSE [rows EXCEPT !.tbl = ApplyAll(rows.tbl, n)]

\* the read function of DataTable with n field mappers
TableRead(T, n, endian, rd) ==
  LET e == SizeReadErr(rd)
      l == GetUint32(endian, SubSeq(rd, 1, 4))
      rows == ReadRows([src |-> SizeReadRest(rd), tbl |-> [T EXCEPT !.length = l],
                        err |-> Nil], 0, l, n)
  IN IF e # Nil THEN [src |-> SizeReadRest(rd), tbl |-> T, err |-> e]
     ELSE IF rows.err # Nil THEN rows
     ELSE [rows EXCEPT !.tbl = ApplyAll(rows.tbl, n)]

\* the Read or Write of a DataTable runs
TableStep(t) ==
  /\ AtTop(t, "table")
  /\ LET f == Top(t)
         rd == TableRead(tbl, f.m.n, Endian(t), src[t])
         wr == TableWrite(tbl, f.m.n, Endian(t), sink[t], wcap[t])
         e == IF f.dir = "R" THEN rd.err ELSE wr.err
     IN /\ tbl' = IF f.dir = "R" THEN rd.tbl ELSE wr.tbl
        /\ src' = [src EXCEPT ![t] = IF f.dir = "R" THEN rd.src ELSE @]
        /\ sink' = [sink EXCEPT ![t] = IF f.dir = "W" THEN wr.sink ELSE @]
        /\ th' = [th EXCEPT ![t].stack = Pop(@), ![t].ret = e]
        /\ log' = [log EXCEPT ![t] = Append(@, RetEv(f.m, f.dir, e))]
        /\ UNCHANGED <<tgt, wcap, mutex, rwmutex, pre, order, ncalls, prev, obj>>

(* -------------------- MapSequence over primitives --------------------- *)

\* sequences of up to MaxSeq Byte mappers, child k mapping the k-th caller
\* variable, at most one of them built from a nil pointer
SeqPrograms ==
  { MapSequence([k \in 1..n |-> IF k = p THEN Byte(NilPtr) ELSE Byte(k)]) :
      n \in 0..MaxSeq, p \in 0..MaxSeq }

\* the readers a caller passes
Streams == UNION { [1..n -> Bytes] : n \in 0..MaxSeq }

CallSeq ==
  \E m \in SeqPrograms :
    \/ \E rd \in Streams : Call(1, m, "R", rd, 0)
    \/ \E cap \in 0..MaxSeq : Call(1, m, "W", <<>>, cap)

NextSeq ==
  \/ CallSeq
  \/ LeafStep(1)
  \/ SeqStep(1)

SpecSeq == Init /\ [][NextSeq]_vars

\* history: the calls of primitive mappers t's call has made, and their returns
IsLeafCall(x) == x.ev = "call" /\ IsLeaf(x.m)
IsLeafRet(x) == x.ev = "return" /\ IsLeaf(x.m)
ChildCalls(t) == SelectSeq(log[t], IsLeafCall)
ChildRets(t) == SelectSeq(log[t], IsLeafRet)
\* the first child of t's top-level MapSequence that returned an error (0
\* when none did)
FailedChild(t) ==
  LET L == ChildRets(t)
      bad == {k \in 1..Len(L) : L[k].e # Nil}
  IN IF bad = {} THEN 0 ELSE CHOOSE k \in bad : \A j \in bad : k <= j

\* C1: a MapSequence invokes its children's Read (Write) in declaration
\* order, each after the one before it returned nil; the first error a child
\* returns ends the loop and is the error returned, and no later child is
\* invoked; it returns nil only after every child did.  On Write the sink
\* therefore holds the children's bytes in declaration order.
C1_SequenceInOrder ==
  \A t \in Threads :
    th[t].m.kind = "seq" =>
      LET ms == th[t].m.ms
          C == ChildCalls(t)
          L == ChildRets(t)
      IN /\ Len(C) <= Len(ms)
         /\ Len(L) <= Len(C) /\ Len(C) <= Len(L) + 1
         /\ \A k \in 1..Len(C) : C[k].m = ms[k] /\ C[k].dir = th[t].dir
         /\ \A k \in 1..Len(L) : L[k].m = ms[k] /\ L[k].dir = th[t].dir
         /\ \A k \in 1..(Len(C) - 1) : L[k].e = Nil
         /\ Returned(t) =>
              IF th[t].ret = Nil
                THEN Len(L) = Len(ms) /\ \A k \in 1..Len(L) : L[k].e = Nil
                ELSE L # <<>> /\ L[Len(L)].e = th[t].ret
         /\ th[t].dir = "W" =>
              LET ok == {k \in 1..Len(L) : L[k].e = Nil}
              IN sink[t] = [k \in 1..Cardinality(ok) |-> pre[t].tgt[ms[k].t]]

\* a Read of three children whose second child returned an error
C1_Witness ==
  /\ Returned(1) /\ th[1].ret # Nil /\ th[1].dir = "R"
  /\ th[1].m.kind = "seq" /\ Len(th[1].m.ms) = 3
  /\ Len(ChildRets(1)) = 2 /\ tgt[1] # pre[1].tgt[1]

\* C2: when child k of a MapSequence fails nothing is rolled back and nothing
\* after k runs.  After a failed Read the targets of children 1..k-1 hold the
\* bytes decoded for them, exactly those k-1 bytes are consumed, and the
\* targets of children k+1..N are as before the call; after a failed Write
\* the sink holds the bytes of children 1..k-1 and nothing else.
C2_NoRollback ==
  \A t \in Threads :
    (th[t].m.kind = "seq" /\ Returned(t) /\ FailedChild(t) # 0) =>
      LET ms == th[t].m.ms
          k == FailedChild(t)
      IN /\ th[t].ret # Nil
         /\ th[t].dir = "R" =>
              /\ \A j \in 1..(k - 1) : tgt[ms[j].t] = pre[t].src[j]
              /\ \A j \in (k + 1)..Len(ms) :
                   ms[j].kind = "byte" => tgt[ms[j].t] = pre[t].tgt[ms[j].t]
              /\ src[t] = SubSeq(pre[t].src, k, Len(pre[t].src))
         /\ th[t].dir = "W" =>
              /\ sink[t] = [j \in 1..(k - 1) |-> pre[t].tgt[ms[j].t]]
              /\ tgt = pre[t].tgt

\* a Read of three children whose second child failed with bytes left, the
\* first target changed and the third child mapping a variable
C2_WitnessRead ==
  /\ Returned(1) /\ th[1].dir = "R" /\ FailedChild(1) = 2
  /\ Len(th[1].m.ms) = 3 /\ th[1].m.ms[3].kind = "byte"
  /\ src[1] # <<>> /\ tgt[1] # pre[1].tgt[1]

\* a Write of three children whose second child failed: one byte is written
C2_WitnessWrite ==
  /\ Returned(1) /\ th[1].dir = "W" /\ FailedChild(1) = 2
  /\ Len(th[1].m.ms) = 3 /\ Len(sink[1]) = 1

(* ------------------- EventHandler with given handlers ------------------ *)

\* what a normalizer assigns to the caller's variables
NormalTargets == [k \in Targets |-> MaxByte - (k % (MaxByte + 1))]

BeforeHooks == {NoHook, Returns(Nil), Returns(ErrTest), Sets(NormalTargets)}
AfterHooks == {NoHook, Returns(Nil), Returns(ErrTesting), ReturnsErr}
\* the handlers of the direction that is not called
OtherHooks == {NoHook, Returns(ErrOther)}

TwoBytes == MapSequence(<<Byte(1), Byte(2)>>)
\* the mappers wrapped: the sequence of the tests, nilMapping, a mapper that
\* panics, and the sequence with a ValidateRead and a NormalizeWrite on it
EHInner ==
  {TwoBytes, nilMapping, PanicMapping,
   NormalizeWrite(ValidateRead(TwoBytes, ReturnsErr), Returns(Nil))}

\* readers holding up to two bytes
ShortStreams == UNION { [1..n -> Bytes] : n \in 0..2 }

CallEH ==
  \E inner \in EHInner, b \in BeforeHooks, a \in AfterHooks,
     ob \in OtherHooks, oa \in OtherHooks :
    \/ \E rd \in ShortStreams :
         Call(1, NewEventHandler(inner,
                   [BeforeRead |-> b, AfterRead |-> a,
                    BeforeWrite |-> ob, AfterWrite |-> oa]), "R", rd, 0)
    \/ \E cap \in 0..2 :
         Call(1, NewEventHandler(inner,
                   [BeforeRead |-> ob, AfterRead |-> oa,
                    BeforeWrite |-> b, AfterWrite |-> a]), "W", <<>>, cap)

NextEH ==
  \/ CallEH
  \/ LeafStep(1)
  \/ PanicStep(1)
  \/ SeqStep(1)
  \/ EHBefore(1)
  \/ EHAfter(1)
  \/ Unwind(1)

SpecEH == Init /\ [][NextEH]_vars

\* history of t's top-level EventHandler: the handlers configured for the
\* direction called, the events of its handlers, the calls and the returns of
\* the mapper it wraps
TopBefore(t) == IF th[t].dir = "R" THEN th[t].m.BeforeRead ELSE th[t].m.BeforeWrite
TopAfter(t) == IF th[t].dir = "R" THEN th[t].m.AfterRead ELSE th[t].m.AfterWrite
BeforeEvs(t) == SelectSeq(log[t], LAMBDA x : x.ev = "before" /\ x.m = th[t].m)
AfterEvs(t) == SelectSeq(log[t], LAMBDA x : x.ev = "after" /\ x.m = th[t].m)
InnerCalls(t) == SelectSeq(log[t], LAMBDA x : x.ev = "call" /\ x.m = th[t].m.mapper)
InnerRets(t) == SelectSeq(log[t], LAMBDA x : x.ev = "return" /\ x.m = th[t].m.mapper)

\* C3: the error Read (Write) of an EventHandler returns is the wrapped
\* mapper's error when that is non-nil, whatever the After handler returned;
\* when the wrapped mapper returned nil it is what the After handler returned
\* (nil when there is no After handler).
C3_HookErrorPrecedence ==
  \A t \in Threads :
    (th[t].m.kind = "eh" /\ Returned(t) /\ InnerRets(t) # <<>>) =>
      LET inner == InnerRets(t)[1].e
      IN /\ inner # Nil => th[t].ret = inner
         /\ (inner = Nil /\ TopAfter(t) # NoHook) =>
              /\ Len(AfterEvs(t)) = 1
              /\ AfterEvs(t)[1].h = TopAfter(t)
              /\ th[t].ret = AfterEvs(t)[1].e
         /\ (inner = Nil /\ TopAfter(t) = NoHook) => th[t].ret = Nil

\* the wrapped mapper failed and the After handler returned another error
C3_WitnessInnerFails ==
  /\ th[1].m.kind = "eh" /\ Returned(1) /\ InnerRets(1) # <<>>
  /\ InnerRets(1)[1].e = ErrNilReadWrite
  /\ AfterEvs(1) # <<>> /\ AfterEvs(1)[1].e = ErrTesting
  /\ th[1].ret = ErrNilReadWrite

\* the wrapped mapper returned nil and the After handler returned an error
C3_WitnessInnerSucceeds ==
  /\ th[1].m.kind = "eh" /\ Returned(1) /\ InnerRets(1) # <<>>
  /\ InnerRets(1)[1].e = Nil
  /\ AfterEvs(1) # <<>> /\ AfterEvs(1)[1].e = ErrTesting
  /\ th[1].ret = ErrTesting

\* C4: the Before handler of an EventHandler (NormalizeWrite's normalizer
\* too) runs before the wrapped mapper is called: it is the first thing the
\* call does, it sees the stream and the variables as they were when the call
\* began, and what it assigns to the variables is what the wrapped Write
\* emits.  If it returns an error the wrapped mapper is never called, nothing
\* is consumed or produced, and that error is returned.
C4_BeforeRunsFirst ==
  \A t \in Threads :
    (th[t].m.kind = "eh" /\ TopBefore(t) # NoHook /\ Len(log[t]) >= 2) =>
      LET b == log[t][2]
      IN /\ b.ev = "before" /\ b.m = th[t].m /\ b.h = TopBefore(t)
         /\ b.obs = pre[t]
         /\ Len(BeforeEvs(t)) = 1
         /\ b.e # Nil =>
              /\ InnerCalls(t) = <<>>
              /\ src[t] = pre[t].src /\ sink[t] = pre[t].sink
              /\ Returned(t) /\ th[t].ret = b.e
         /\ (th[t].dir = "W" /\ th[t].m.mapper = TwoBytes) =>
              LET v == IF b.h.h = "sets" THEN b.h.v ELSE pre[t].tgt
              IN sink[t] = [k \in 1..Len(sink[t]) |-> v[k]]

\* the Before handler returned an error while the stream held bytes
C4_WitnessBeforeFails ==
  /\ th[1].m.kind = "eh" /\ Returned(1) /\ th[1].dir = "R"
  /\ BeforeEvs(1) # <<>> /\ BeforeEvs(1)[1].e = ErrTest
  /\ th[1].ret = ErrTest /\ Len(src[1]) = 2

\* a normalizer changed the variables and the wrapped Write emitted them
C4_WitnessNormalized ==
  /\ th[1].m.kind = "eh" /\ Returned(1) /\ th[1].dir = "W"
  /\ th[1].m.mapper = TwoBytes
  /\ BeforeEvs(1) # <<>> /\ BeforeEvs(1)[1].h.h = "sets"
  /\ pre[1].tgt # NormalTargets
  /\ sink[1] = <<NormalTargets[1], NormalTargets[2]>>

\* C5: the After handler configured on an EventHandler runs on every Read
\* (Write) call, whatever the call's outcome, and is given the wrapped
\* mapper's error.
C5_AfterAlwaysRuns ==
  \A t \in Threads :
    (th[t].m.kind = "eh" /\ TopAfter(t) # NoHook /\ (Returned(t) \/ Panicked(t))) =>
      /\ Len(AfterEvs(t)) = 1
      /\ InnerRets(t) # <<>> => AfterEvs(t)[1].arg = InnerRets(t)[1].e

\* the After handler runs exactly on the calls whose Before handler did not
\* return an error: once, with the wrapped mapper's error, or with nil when
\* the wrapped mapper panicked
C5_AfterRunsUnlessBeforeFailed ==
  \A t \in Threads :
    (th[t].m.kind = "eh" /\ TopAfter(t) # NoHook /\ (Returned(t) \/ Panicked(t))) =>
      IF BeforeEvs(t) # <<>> /\ BeforeEvs(t)[1].e # Nil
        THEN AfterEvs(t) = <<>>
        ELSE /\ Len(AfterEvs(t)) = 1
             /\ AfterEvs(t)[1].arg = IF InnerRets(t) # <<>> THEN InnerRets(t)[1].e ELSE Nil

(* ------------------ Lock and RWLock under concurrency ------------------ *)

\* one goroutine takes a step of the call it has in progress
Step(t) ==
  \/ LeafStep(t)
  \/ PanicStep(t)
  \/ SeqStep(t)
  \/ EHBefore(t)
  \/ EHAfter(t)
  \/ Unwind(t)

\* the mappers guarded: one that reads or writes two variables, and one that
\* panics
GuardedInner == {TwoBytes, PanicMapping}
GuardPrograms ==
  {Lock(inner) : inner \in GuardedInner} \cup {RWLock(inner) : inner \in GuardedInner}

\* readers the guarded mapper is called with: one that ends after a byte and
\* one holding two bytes; the mapper that panics reads nothing
GuardStreams(m) ==
  IF m.mapper = PanicMapping THEN {<<>>} ELSE {<<1>>, <<1, 2>>}

\* Reads, and Writes on a writer with room
CallGuard ==
  \E t \in Threads, m \in GuardPrograms :
    \/ \E rd \in GuardStreams(m) : Call(t, m, "R", rd, 0)
    \/ Call(t, m, "W", <<>>, 2)

NextLock ==
  \/ CallGuard
  \/ \E t \in Threads : Step(t)

SpecLock == Init /\ [][NextLock]_vars

\* m was built by Lock (by RWLock)
IsLock(m) == m.kind = "eh" /\ m = Lock(m.mapper)
IsRWLock(m) == m.kind = "eh" /\ m = RWLock(m.mapper)
IsLockHook(h) == h.h \in {"Mutex.Lock", "RWMutex.Lock", "RWMutex.RLock"}
IsUnlockHook(h) == h.h \in {"Mutex.Unlock", "RWMutex.Unlock", "RWMutex.RUnlock"}

\* t has called the mapper some Lock (RWLock) wraps, in direction dir, and
\* that call has neither returned nor panicked
LockInner(t) ==
  {k \in 1..(Len(th[t].stack) - 1) :
     IsLock(th[t].stack[k].m) /\ th[t].stack[k].pc = "inner"}
RWLockInner(t, dir) ==
  {k \in 1..(Len(th[t].stack) - 1) :
     /\ IsRWLock(th[t].stack[k].m)
     /\ th[t].stack[k].pc = "inner"
     /\ th[t].stack[k].dir = dir}

\* history: how often the handlers of t's call took and released a guard
Acquired(t) ==
  Len(SelectSeq(log[t], LAMBDA x : x.ev = "before" /\ IsLockHook(x.h)))
Released(t) ==
  Len(SelectSeq(log[t], LAMBDA x : x.ev = "after" /\ IsUnlockHook(x.h)))

\* C6: of the goroutines calling Read or Write on mappers wrapped with Lock
\* over one mutex, at most one has a wrapped Read or Write in progress.
C6_LockMutualExclusion ==
  \A t1, t2 \in Threads :
    (LockInner(t1) # {} /\ LockInner(t2) # {}) => t1 = t2

\* a wrapped Write is in progress while another goroutine's Write waits for
\* the mutex
C6_Witness ==
  /\ LockInner(1) # {} /\ th[1].dir = "W"
  /\ AtTop(2, "eh") /\ IsLock(Top(2).m) /\ Top(2).pc = "start"
  /\ th[2].dir = "W" /\ ~ENABLED EHBefore(2)

\* C7: a Read or Write through a Lock or RWLock takes the guard, then calls
\* the wrapped mapper, and has released the guard when the call is over,
\* whether the wrapped mapper returned nil, returned an error or panicked:
\* one acquisition and one release per call, the release after the wrapped
\* call ended, and the guard is held exactly by the calls in between.
C7_GuardReleasedOnEveryPath ==
  /\ \A t \in Threads :
       (IsLock(th[t].m) \/ IsRWLock(th[t].m)) =>
         /\ Acquired(t) <= 1 /\ Released(t) <= Acquired(t)
         /\ InnerCalls(t) # <<>> =>
              /\ Acquired(t) = 1
              /\ log[t][2].ev = "before" /\ IsLockHook(log[t][2].h)
              /\ log[t][3] = CallEv(th[t].m.mapper, th[t].dir)
         /\ (LockInner(t) # {} \/ RWLockInner(t, th[t].dir) # {}) =>
              Acquired(t) = 1 /\ Released(t) = 0
         /\ Released(t) = 1 =>
              \E i \in 4..(Len(log[t]) - 1) :
                /\ log[t][i].ev \in {"return", "panic"}
                /\ log[t][i].m = th[t].m.mapper
                /\ log[t][i + 1].ev = "after" /\ IsUnlockHook(log[t][i + 1].h)
         /\ (Returned(t) \/ Panicked(t)) => Acquired(t) = 1 /\ Released(t) = 1
  /\ mutex = (\E t \in Threads : IsLock(th[t].m) /\ Acquired(t) > Released(t))
  /\ rwmutex.w = (\E t \in Threads :
                    IsRWLock(th[t].m) /\ th[t].dir = "R" /\ Acquired(t) > Released(t))
  /\ rwmutex.r = Cardinality({t \in Threads :
                    IsRWLock(th[t].m) /\ th[t].dir = "W" /\ Acquired(t) > Released(t)})

\* a Lock-wrapped Write whose wrapped mapper panicked has ended, and so has a
\* RWLock-wrapped Read whose wrapped mapper returned an error
C7_Witness ==
  /\ IsLock(th[1].m) /\ th[1].dir = "W" /\ Panicked(1) /\ Released(1) = 1
  /\ IsRWLock(th[2].m) /\ th[2].dir = "R" /\ Returned(2) /\ th[2].ret = EOF
  /\ Released(2) = 1

(* ----------------- MapSequence of Lock-wrapped mappers ------------------ *)

\* a step of a call whose mappers return
StepSeq(t) ==
  \/ LeafStep(t)
  \/ SeqStep(t)
  \/ EHBefore(t)
  \/ EHAfter(t)

\* MapSequence(Lock(Byte(&a), mux), Lock(Byte(&b), mux))
LockedPair == MapSequence(<<Lock(Byte(1)), Lock(Byte(2))>>)

\* a Read whose second child meets the end of the stream, a Read and a Write
\* both children complete
CallLockedSeq ==
  \E t \in Threads :
    \/ \E rd \in {<<1>>, <<1, 2>>} : Call(t, LockedPair, "R", rd, 0)
    \/ Call(t, LockedPair, "W", <<>>, 2)

NextLockedSeq ==
  \/ CallLockedSeq
  \/ \E t \in Threads : StepSeq(t)

\* a goroutine that can take a step eventually takes one: the scheduler runs
\* every runnable goroutine, and a goroutine waiting in mux.Lock() gets the
\* mutex once no other call is in progress
SpecLockedSeq ==
  Init /\ [][NextLockedSeq]_vars /\ \A t \in Threads : WF_vars(StepSeq(t))

\* history: the children t's top-level MapSequence has called
SeqCalls(t) ==
  SelectSeq(log[t], LAMBDA x : x.ev = "call" /\ x.m.kind = "eh" /\ IsLock(x.m))

RWPair == RWLock(TwoBytes)

\* readers holding a record whose two bytes are equal
PairStreams == {<<v, v>> : v \in 1..MaxByte}

CallRW ==
  \E t \in Threads :
    \/ \E rd \in PairStreams : Call(t, RWPair, "R", rd, 0)
    \/ Call(t, RWPair, "W", <<>>, 2)

NextRW ==
  \/ CallRW
  \/ \E t \in Threads : StepSeq(t)

SpecRW == Init /\ [][NextRW]_vars

\* the record (a, b) held by the variables v
Pair(v) == <<v[1], v[2]>>

\* history: the records the variables held before any call and when a wrapped
\* Read had returned
ReadBoundaries ==
  {Pair(ZeroTargets), Pair(CountTargets)} \cup
  UNION { {Pair(log[t][k].obs.tgt) :
             k \in {j \in 1..Len(log[t]) : log[t][j].ev = "after" /\ log[t][j].dir = "R"}} :
          t \in Threads }

\* C8: with RWLock over one RWMutex a wrapped Read excludes every other
\* wrapped Read and every wrapped Write, while wrapped Writes may overlap
\* each other; the variables do not change while a wrapped Write is in
\* progress, so what a Write emits is the record as it was when it took the
\* read lock: the record as some Read left it, or as it was before any Read.
C8_ReadExclusiveWriteShared ==
  /\ \A t1, t2 \in Threads :
       (t1 # t2 /\ RWLockInner(t1, "R") # {}) =>
         RWLockInner(t2, "R") = {} /\ RWLockInner(t2, "W") = {}
  /\ \A t \in Threads :
       (IsRWLock(th[t].m) /\ th[t].dir = "W" /\ BeforeEvs(t) # <<>>) =>
         LET seen == BeforeEvs(t)[1].obs.tgt
         IN /\ RWLockInner(t, "W") # {} => tgt = seen
            /\ sink[t] = SubSeq(Pair(seen), 1, Len(sink[t]))
            /\ Pair(seen) \in ReadBoundaries

\* two wrapped Writes are in progress at once, each having emitted one byte
C8_Witness ==
  /\ RWLockInner(1, "W") # {} /\ RWLockInner(2, "W") # {}
  /\ Len(sink[1]) = 1 /\ Len(sink[2]) = 1

(* ------------------------ DataTable of byte columns -------------------- *)

\* the k-th column holding n elements
ColData(k, n) == [i \in 1..n |-> (2 * k + i) % (MaxByte + 1)]

\* the caller assigns the row count and the slices before the first call
SetTable ==
  /\ ~th[1].called /\ ncalls[1] = 0
  /\ \E l \in 0..MaxRows, lens \in [Columns -> 0..MaxRows] :
       tbl' = [tbl EXCEPT !.length = l,
                          !.target = [k \in Columns |-> ColData(k, lens[k])]]
  /\ UNCHANGED <<th, tgt, src, sink, wcap, mutex, rwmutex, log, pre, order, ncalls, prev, obj>>

\* the bytes of a table of l rows whose last missing fields are cut off, and
\* readers that end within the row count
TableBytes(endian, l, missing) ==
  PutUint32(endian, l) \o [i \in 1..(l * NCols - missing) |-> i % (MaxByte + 1)]
TableStreams(endian) ==
  {<<>>, <<0, 0>>} \cup
  {TableBytes(endian, l, missing) : l \in 0..MaxRows, missing \in 0..1}

\* writers that take nothing, the row count only, one byte more, everything
TableCaps == {0, 4, 5, 4 + MaxRows * NCols}

TablePrograms == {DataTable(1, NCols), DataTable(NilPtr, NCols)}

\* a Read, a Read of the bytes the call before wrote, or a Write; the calls
\* after the first are calls of the table in the byte order of the first
CallTable ==
  \E m \in TablePrograms, endian \in {BigEndian, LittleEndian} :
    /\ ncalls[1] > 0 => m = DataTable(1, NCols) /\ endian = order[1]
    /\ \/ \E rd \in TableStreams(endian) : CallWith(1, m, "R", rd, 0, endian)
       \/ prev[1].dir = "W" /\ CallWith(1, m, "R", prev[1].sink, 0, endian)
       \/ \E cap \in TableCaps : CallWith(1, m, "W", <<>>, cap, endian)

\* the caller goes on to its next call
Again ==
  /\ Returned(1)
  /\ ncalls[1] + 1 < MaxCalls
  /\ ncalls' = [ncalls EXCEPT ![1] = @ + 1]
  /\ prev' = [prev EXCEPT ![1] =
                IF th[1].dir = "W" /\ th[1].ret # Nil
                  THEN NoCall
                  ELSE [m |-> th[1].m, sink |-> sink[1], pre |-> pre[1],
                        order |-> order[1], dir |-> th[1].dir, ret |-> th[1].ret]]
  /\ th' = [th EXCEPT ![1] = IdleThread]
  /\ UNCHANGED <<tgt, src, sink, wcap, mutex, rwmutex, log, pre, tbl, order, obj>>

\* between two calls the caller sets the columns to nil and the row count to 0
ClearTable ==
  /\ ~th[1].called /\ ncalls[1] > 0
  /\ tbl' = [tbl EXCEPT !.length = 0, !.target = [k \in Columns |-> <<>>]]
  /\ UNCHANGED <<th, tgt, src, sink, wcap, mutex, rwmutex, log, pre, order, ncalls, prev, obj>>

NextTable ==
  \/ SetTable
  \/ CallTable
  \/ LeafStep(1)
  \/ TableStep(1)
  \/ Again
  \/ ClearTable

SpecTable == Init /\ [][NextTable]_vars

\* C10: a Write of a DataTable one of whose columns has a length other than
\* the value of the row count returns ErrUnbalancedTable and has written no
\* byte, the row count included.
C10_UnbalancedWriteWritesNothing ==
  \A t \in Threads :
    (th[t].m.kind = "table" /\ th[t].dir = "W" /\ Returned(t)
       /\ \E k \in 1..th[t].m.n :
            Len(pre[t].tbl.target[k]) # pre[t].tbl.length) =>
      /\ th[t].ret = ErrUnbalancedTable
      /\ sink[t] = <<>>

\* a Write on a writer with room has returned; its first column had as many
\* elements as the row count says and its second column more
C10_Witness ==
  /\ th[1].m.kind = "table" /\ th[1].dir = "W" /\ Returned(1)
  /\ th[1].ret = ErrUnbalancedTable /\ wcap[1] > 4
  /\ pre[1].tbl.length = 1
  /\ Len(pre[1].tbl.target[1]) = 1 /\ Len(pre[1].tbl.target[2]) = 2

\* C11: a Read of a DataTable that fails after the row count was read, on a
\* field of any row, leaves every column the caller holds as it was before
\* the call: the columns are replaced from the buffers only after the last
\* field of the last row was read.
C11_FailedReadKeepsColumns ==
  \A t \in Threads :
    (th[t].m.kind = "table" /\ th[t].dir = "R" /\ Returned(t)
       /\ th[t].ret # Nil /\ Len(pre[t].src) >= 4) =>
      tbl.target = pre[t].tbl.target

\* a Read of two rows has failed in its second row, with the first row in the
\* buffers, while the columns held other elements
C11_Witness ==
  /\ th[1].m.kind = "table" /\ th[1].dir = "R" /\ Returned(1)
  /\ th[1].ret = EOF /\ tbl.length = 2
  /\ Len(tbl.buf[1]) = 2 /\ Len(tbl.buf[2]) = 1
  /\ Len(tbl.target[1]) = 1 /\ tbl.target[1] # SubSeq(tbl.buf[1], 1, 1)

\* the row count n as Size writes it, and the fields of the table T row
\* by row
Count32(endian, n) ==
  IF endian = BigEndian THEN <<0, 0, 0, n>> ELSE <<n, 0, 0, 0>>
RowMajor(T, n) ==
  [i \in 1..(T.length * n) |-> T.target[((i - 1) % n) + 1][((i - 1) \div n) + 1]]

\* C12: the first Write of a DataTable over columns of n elements each, n
\* the row count, emits the row count as 32 bits once and then row 1 to row
\* n, each row being its fields in the order of the columns (as much of it
\* as the writer takes); a Read of the bytes such a Write emitted returns
\* nil, consumes them all, sets the row count to n and each column to its n
\* elements.
C12_RowMajorRoundTrip ==
  \A t \in Threads :
    (th[t].m.kind = "table" /\ Returned(t)) =>
      /\ (th[t].dir = "W" /\ ncalls[t] = 0
            /\ \A k \in 1..th[t].m.n :
                 Len(pre[t].tbl.target[k]) = pre[t].tbl.length) =>
           LET bytes == Count32(order[t], pre[t].tbl.length)
                          \o RowMajor(pre[t].tbl, th[t].m.n)
           IN /\ th[t].ret = Nil <=> wcap[t] >= Len(bytes)
              /\ th[t].ret = Nil => sink[t] = bytes
              /\ th[t].ret # Nil => sink[t] = SubSeq(bytes, 1, wcap[t])
      /\ (th[t].dir = "R" /\ ncalls[t] = 1 /\ prev[t].dir = "W"
            /\ pre[t].src = prev[t].sink /\ order[t] = prev[t].order) =>
           /\ th[t].ret = Nil
           /\ src[t] = <<>>
           /\ tbl.length = prev[t].pre.tbl.length
           /\ tbl.target = prev[t].pre.tbl.target

\* two rows were written, the caller set the columns to nil, and a Read of the
\* bytes written has returned
C12_Witness ==
  /\ th[1].m.kind = "table" /\ Returned(1) /\ th[1].dir = "R"
  /\ ncalls[1] = 1 /\ prev[1].dir = "W" /\ pre[1].src = prev[1].sink
  /\ order[1] = prev[1].order
  /\ prev[1].pre.tbl.length = 2 /\ pre[1].tbl.length = 0
  /\ pre[1].tbl.target[1] = <<>> /\ Len(tbl.target[1]) = 2

(* ---------------------- SpecNil: nil targets ------------------------- *)

\* every constructor that checks its target, given a nil target (a nil
\* buffer or a nil length, a nil row count, a nil Mapper)
NilPrograms ==
  {Byte(NilPtr), Bool(NilPtr), IntMapper(NilPtr), Float(NilPtr), Varint(NilPtr),
   Uvarint(NilPtr), Size(NilPtr), FixedBytes(NilPtr, 2), LenBytes(NilPtr, 1),
   LenBytes(1, NilPtr), Slice(NilPtr, 2), LenSlice(NilPtr, 1),
   LenSlice(1, NilPtr), DynamicSlice(NilPtr), Map(NilPtr),
   DataTable(NilPtr, NCols), FixedString(NilPtr, 2), NullTermString(NilPtr),
   Uni16FixedString(NilPtr, 2), Uni16NullTermString(NilPtr),
   NewEventHandler(NilMapper, EventHandler)}

NilStreams == {<<>>, <<1>>, <<1, 2>>}

CallNil ==
  \E t \in Threads, m \in NilPrograms :
    \/ \E rd \in NilStreams : Call(t, m, "R", rd, 0)
    \/ \E cap \in {0, 2} : Call(t, m, "W", <<>>, cap)

NextNil == CallNil \/ \E t \in Threads : LeafStep(t)

SpecNil == Init /\ [][NextNil]_vars

\* C13: each constructor given a nil target returns the mapper whose Read
\* and Write return ErrNilReadWrite; the call takes nothing from the reader,
\* gives nothing to the writer, changes no variable of the caller and calls
\* nothing else
C13_NilTargetIsErrNilReadWrite ==
  /\ NilPrograms = {nilMapping}
  /\ \A t \in Threads :
       /\ ~Panicked(t)
       /\ th[t].called => th[t].m = nilMapping
       /\ Returned(t) =>
            /\ th[t].ret = ErrNilReadWrite
            /\ log[t] = <<CallEv(th[t].m, th[t].dir),
                          RetEv(th[t].m, th[t].dir, ErrNilReadWrite)>>
            /\ src[t] = pre[t].src
            /\ sink[t] = <<>>
            /\ tgt = pre[t].tgt
            /\ tbl = pre[t].tbl
            /\ obj = pre[t].obj

\* a Read with two bytes to read and a Write to a writer with room for two
\* have both returned
C13_Witness ==
  /\ Returned(1) /\ th[1].dir = "R" /\ pre[1].src = <<1, 2>>
  /\ src[1] = <<1, 2>> /\ th[1].ret = ErrNilReadWrite
  /\ Returned(2) /\ th[2].dir = "W" /\ wcap[2] = 2
  /\ sink[2] = <<>> /\ th[2].ret = ErrNilReadWrite

(* ------------- SpecFault: constructors without a nil check ------------ *)

\* binary.Read(r, endian, target) and binary.Write(w, endian, target) with a
\* nil *complex64: the value is not one of the types encoding/binary sizes
\* without reflection, and the element of a nil pointer has no type; the
\* library returns its cannot-size error where it guards that case and
\* faults where it asks the missing element for its type.  (A Complex with
\* a target is not modelled.)
ComplexNilStep(t) ==
  /\ AtTop(t, "complex")
  /\ Top(t).m.t = NilPtr
  /\ LET f == Top(t)
         e == IF f.dir = "R" THEN ErrReadInvalidType ELSE ErrWriteNotFixedSize
     IN \/ /\ th' = [th EXCEPT ![t].stack = Pop(@), ![t].ret = e]
           /\ log' = [log EXCEPT ![t] = Append(@, RetEv(f.m, f.dir, e))]
        \/ /\ th' = [th EXCEPT ![t].stack = Pop(@), ![t].unwinding = TRUE]
           /\ log' = [log EXCEPT ![t] = Append(@, PanicEv(f.m, f.dir))]
  /\ UNCHANGED <<tgt, src, sink, wcap, mutex, rwmutex, pre, tbl, order, ncalls, prev, obj>>

\* the read and write of DataTable over the one field mapper whose target is
\* nil.  Write: assertLen takes len(*fw.target) and faults.  Read: the row
\* count is read into *length, readNext reads one element per row into the
\* field's buf, and apply faults assigning *fr.target.
NilFieldTableStep(t) ==
  /\ AtTop(t, "nilfieldtable")
  /\ LET f == Top(t)
         rd == src[t]
         e == SizeReadErr(rd)
         l == GetUint32(Endian(t), SubSeq(rd, 1, 4))
         rows == SizeReadRest(rd)
     IN IF f.dir = "W"
          THEN /\ th' = [th EXCEPT ![t].stack = Pop(@), ![t].unwinding = TRUE]
               /\ log' = [log EXCEPT ![t] = Append(@, PanicEv(f.m, f.dir))]
               /\ UNCHANGED <<src, tbl>>
          ELSE IF e # Nil
            THEN /\ th' = [th EXCEPT ![t].stack = Pop(@), ![t].ret = e]
                 /\ log' = [log EXCEPT ![t] = Append(@, RetEv(f.m, f.dir, e))]
                 /\ src' = [src EXCEPT ![t] = <<>>]
                 /\ UNCHANGED tbl
            ELSE IF Len(rows) < l
              THEN /\ th' = [th EXCEPT ![t].stack = Pop(@), ![t].ret = EOF]
                   /\ log' = [log EXCEPT ![t] = Append(@, RetEv(f.m, f.dir, EOF))]
                   /\ src' = [src EXCEPT ![t] = <<>>]
                   /\ tbl' = [tbl EXCEPT !.length = l]
              ELSE /\ th' = [th EXCEPT ![t].stack = Pop(@), ![t].unwinding = TRUE]
                   /\ log' = [log EXCEPT ![t] = Append(@, PanicEv(f.m, f.dir))]
                   /\ src' = [src EXCEPT ![t] = SubSeq(rows, l + 1, Len(rows))]
                   /\ tbl' = [tbl EXCEPT !.length = l]
  /\ UNCHANGED <<tgt, sink, wcap, mutex, rwmutex, pre, order, ncalls, prev, obj>>

\* Complex[complex64](nil) and DataTable(&length, MapField[byte](nil, Byte))
FaultPrograms == {Complex(NilPtr), DataTableNilField(1)}

FaultStreams ==
  {<<>>, <<0, 0>>, Count32(BigEndian, 0), Count32(BigEndian, 1),
   Count32(BigEndian, 1) \o <<1>>}

CallFault ==
  \E t \in Threads, m \in FaultPrograms :
    \/ \E rd \in FaultStreams : Call(t, m, "R", rd, 0)
    \/ Call(t, m, "W", <<>>, 4 + MaxRows)

NextFault ==
  CallFault \/ \E t \in Threads : ComplexNilStep(t) \/ NilFieldTableStep(t)

SpecFault == Init /\ [][NextFault]_vars

\* C14: a mapper built by Complex with a nil target, and a DataTable with a
\* column built by MapField with a nil target slice, return ErrNilReadWrite
\* from Read and from Write, and never fault
C14_UncheckedConstructorsReturnNilError ==
  \A t \in Threads :
    /\ ~Panicked(t)
    /\ Returned(t) => th[t].ret = ErrNilReadWrite

(* ------------------------ slices of bytes ----------------------------- *)

\* the reads and writes of the mappers over the caller's slice obj.buf and
\* count obj.count.  A read takes the struct O and the bytes rd left in the
\* reader and gives what is left, the struct and the error; a write takes
\* O and the room left in the writer and gives the bytes the writer took and
\* the error.

\* binary.Read(r, endian, _buf) for a _buf of sz bytes: io.ReadFull
ReadFullErr(rd, sz) ==
  IF Len(rd) >= sz THEN Nil ELSE IF rd = <<>> THEN EOF ELSE ErrUnexpectedEOF
ReadFullRest(rd, sz) ==
  IF Len(rd) >= sz THEN SubSeq(rd, sz + 1, Len(rd)) ELSE <<>>

\* a copy that keeps the whole slice whatever the count
CopyAll(sz, buf) == buf

\* out := make([]byte, sz); copy(out, *buf)
MakeCopy(sz, buf) == [i \in 1..sz |-> IF i <= Len(buf) THEN buf[i] ELSE 0]

\* Size(&obj.count) for a uint8 count
SizeRead(O, rd) ==
  IF rd = <<>> THEN [src |-> rd, obj |-> O, err |-> EOF]
  ELSE [src |-> Tail(rd), obj |-> [O EXCEPT !.count = Head(rd)], err |-> Nil]
SizeWrite(O, room) ==
  [sink |-> WriterTakes(<<O.count>>, room), err |-> WriterErr(<<O.count>>, room)]

FixedBytesRead(sz, O, rd) ==
  [src |-> ReadFullRest(rd, sz),
   obj |-> IF ReadFullErr(rd, sz) = Nil
             THEN [O EXCEPT !.buf = SubSeq(rd, 1, sz)] ELSE O,
   err |-> ReadFullErr(rd, sz)]
FixedBytesWrite(sz, O, room) ==
  [sink |-> WriterTakes(MakeCopy(sz, O.buf), room),
   err |-> WriterErr(MakeCopy(sz, O.buf), room)]

\* a read that assigns the elements to the target as it reads them
SliceReadInPlace(count, O, rd) ==
  IF Len(rd) >= count
    THEN [src |-> SubSeq(rd, count + 1, Len(rd)),
          obj |-> [O EXCEPT !.buf = SubSeq(rd, 1, count)], err |-> Nil]
    ELSE [src |-> <<>>, obj |-> [O EXCEPT !.buf = rd], err |-> EOF]

\* Slice's read: count elements are read one Byte at a time into input, and
\* *target = input after the last; its write: output := make([]E, count);
\* copy(output, *target), and the elements of output are written one Byte at
\* a time
SliceRead(count, O, rd) ==
  IF Len(rd) >= count
    THEN [src |-> SubSeq(rd, count + 1, Len(rd)),
          obj |-> [O EXCEPT !.buf = SubSeq(rd, 1, count)], err |-> Nil]
    ELSE [src |-> <<>>, obj |-> O, err |-> EOF]
SliceWrite(count, O, room) ==
  [sink |-> WriterTakes(MakeCopy(count, O.buf), room),
   err |-> WriterErr(MakeCopy(count, O.buf), room)]

\* if err := first; err != nil { return err }; return rest, for two writes
WriteBoth(first, rest) ==
  IF first.err # Nil THEN first
  ELSE [sink |-> first.sink \o rest.sink, err |-> rest.err]

LenBytesRead(O, rd) ==
  LET size == SizeRead(O, rd)
  IN IF size.err # Nil THEN size
     ELSE FixedBytesRead(size.obj.count, size.obj, size.src)
LenBytesWrite(O, room) ==
  WriteBoth(SizeWrite(O, room), FixedBytesWrite(O.count, O, room - 1))

LenSliceRead(O, rd) ==
  LET size == SizeRead(O, rd)
  IN IF size.err # Nil THEN size
     ELSE SliceRead(size.obj.count, size.obj, size.src)
LenSliceWrite(O, room) ==
  WriteBoth(SizeWrite(O, room), SliceWrite(O.count, O, room - 1))

\* a DynamicSlice whose write takes the length from the caller's count
DynamicSliceWriteCount(endian, O, room) ==
  WriteBoth([sink |-> WriterTakes(PutUint32(endian, O.count), room),
             err |-> WriterErr(PutUint32(endian, O.count), room)],
            SliceWrite(O.count, O, room - 4))

\* DynamicSlice: LenSlice(target, &length, mapVal) over a local uint32
\* length, 0 for the read and uint32(len(*target)) for the write
DynamicSliceRead(endian, O, rd) ==
  IF SizeReadErr(rd) # Nil
    THEN [src |-> SizeReadRest(rd), obj |-> O, err |-> SizeReadErr(rd)]
    ELSE SliceRead(GetUint32(endian, SubSeq(rd, 1, 4)), O, SizeReadRest(rd))
DynamicSliceWrite(endian, O, room) ==
  LET length == Uint32(Len(O.buf))
  IN WriteBoth([sink |-> WriterTakes(PutUint32(endian, length), room),
                err |-> WriterErr(PutUint32(endian, length), room)],
               SliceWrite(length, O, room - 4))

\* m.read(r, endian) and m.write(w, endian) of these mappers
DataRead(m, endian, O, rd) ==
  CASE m.kind = "size" -> SizeRead(O, rd)
    [] m.kind = "fixedbytes" -> FixedBytesRead(m.n, O, rd)
    [] m.kind = "lenbytes" -> LenBytesRead(O, rd)
    [] m.kind = "slice" -> SliceRead(m.n, O, rd)
    [] m.kind = "lenslice" -> LenSliceRead(O, rd)
    [] m.kind = "dynslice" -> DynamicSliceRead(endian, O, rd)
DataWrite(m, endian, O, room) ==
  CASE m.kind = "size" -> SizeWrite(O, room)
    [] m.kind = "fixedbytes" -> FixedBytesWrite(m.n, O, room)
    [] m.kind = "lenbytes" -> LenBytesWrite(O, room)
    [] m.kind = "slice" -> SliceWrite(m.n, O, room)
    [] m.kind = "lenslice" -> LenSliceWrite(O, room)
    [] m.kind = "dynslice" -> DynamicSliceWrite(endian, O, room)

DataKinds == {"size", "fixedbytes", "lenbytes", "slice", "lenslice", "dynslice"}

\* the Read or Write of one of these mappers runs
DataStep(t) ==
  /\ Running(t)
  /\ ~th[t].unwinding
  /\ Top(t).m.kind \in DataKinds
  /\ LET f == Top(t)
         rd == DataRead(f.m, Endian(t), obj, src[t])
         wr == DataWrite(f.m, Endian(t), obj, wcap[t] - Len(sink[t]))
         e == IF f.dir = "R" THEN rd.err ELSE wr.err
     IN /\ th' = [th EXCEPT ![t].stack = Pop(@), ![t].ret = e]
        /\ log' = [log EXCEPT ![t] = Append(@, RetEv(f.m, f.dir, e))]
        /\ IF f.dir = "R"
             THEN /\ src' = [src EXCEPT ![t] = rd.src]
                  /\ obj' = rd.obj
                  /\ UNCHANGED sink
             ELSE /\ sink' = [sink EXCEPT ![t] = @ \o wr.sink]
                  /\ UNCHANGED <<src, obj>>
  /\ UNCHANGED <<tgt, wcap, mutex, rwmutex, pre, tbl, order, ncalls, prev>>

(* -------------------------------- Map --------------------------------- *)

\* the loop of Map's read: n times a key and a value are read from rest and
\* m[key] = val
RECURSIVE ReadEntries(_, _, _)
ReadEntries(m, rest, n) ==
  IF n = 0 THEN m
  ELSE ReadEntries([k \in DOMAIN m \cup {rest[1]} |->
                      IF k = rest[1] THEN rest[2] ELSE m[k]],
                   SubSeq(rest, 3, Len(rest)), n - 1)

\* a read that fills the map the target holds
MapReadKeeps(endian, O, rd) ==
  LET length == GetUint32(endian, SubSeq(rd, 1, 4))
      rest == SizeReadRest(rd)
  IN IF SizeReadErr(rd) # Nil
       THEN [src |-> rest, obj |-> O, err |-> SizeReadErr(rd)]
     ELSE IF Len(rest) < 2 * length
       THEN [src |-> <<>>, obj |-> O, err |-> EOF]
     ELSE [src |-> SubSeq(rest, 2 * length + 1, Len(rest)),
           obj |-> [O EXCEPT !.entries = ReadEntries(O.entries, rest, length)],
           err |-> Nil]

\* Map's read: m := map[K]V{}; the uint32 length is read; the entries are
\* read; *target = m
MapRead(endian, O, rd) ==
  LET length == GetUint32(endian, SubSeq(rd, 1, 4))
      rest == SizeReadRest(rd)
  IN IF SizeReadErr(rd) # Nil
       THEN [src |-> rest, obj |-> O, err |-> SizeReadErr(rd)]
     ELSE IF Len(rest) < 2 * length
       THEN [src |-> <<>>, obj |-> O, err |-> EOF]
     ELSE [src |-> SubSeq(rest, 2 * length + 1, Len(rest)),
           obj |-> [O EXCEPT !.entries = ReadEntries([k \in {} |-> 0], rest, length)],
           err |-> Nil]

\* the orders in which for k, v := range *target can visit the keys
RangeOrders(m) ==
  {keys \in [1..Cardinality(DOMAIN m) -> DOMAIN m] :
     \A i, j \in DOMAIN keys : keys[i] = keys[j] => i = j}

\* Map's write when range visits the keys in the order keys: the uint32
\* length, then each key and its value
MapWrite(endian, O, room, keys) ==
  LET length == Uint32(Cardinality(DOMAIN O.entries))
      bytes == PutUint32(endian, length) \o
                 [i \in 1..(2 * Len(keys)) |->
                    IF i % 2 = 1 THEN keys[(i + 1) \div 2]
                    ELSE O.entries[keys[i \div 2]]]
  IN [sink |-> WriterTakes(bytes, room), err |-> WriterErr(bytes, room)]

\* the Read or Write of a Map runs
MapStep(t) ==
  /\ AtTop(t, "map")
  /\ \E keys \in IF Top(t).dir = "W" THEN RangeOrders(obj.entries) ELSE {<<>>} :
       LET f == Top(t)
           rd == MapRead(Endian(t), obj, src[t])
           wr == MapWrite(Endian(t), obj, wcap[t] - Len(sink[t]), keys)
           e == IF f.dir = "R" THEN rd.err ELSE wr.err
       IN /\ th' = [th EXCEPT ![t].stack = Pop(@), ![t].ret = e]
          /\ log' = [log EXCEPT ![t] = Append(@, RetEv(f.m, f.dir, e))]
          /\ IF f.dir = "R"
               THEN /\ src' = [src EXCEPT ![t] = rd.src]
                    /\ obj' = rd.obj
                    /\ UNCHANGED sink
               ELSE /\ sink' = [sink EXCEPT ![t] = @ \o wr.sink]
                    /\ UNCHANGED <<src, obj>>
  /\ UNCHANGED <<tgt, wcap, mutex, rwmutex, pre, tbl, order, ncalls, prev>>

(* -------------------------- Varint, Uvarint --------------------------- *)

\* binary.MaxVarintLen64
MaxVarintLen64 == 10

\* 64-bit words: x >> 7, x >> 1, x << 1, ^x, x < 0x80, and g << (7 * i) for
\* a 7-bit g, which x |= ... adds to a word that has no bit there
Shr7(x) ==
  <<(x[1] \div 128) + (x[2] % 128) * (2^21),
    (x[2] \div 128) + (x[3] % 128) * (2^21), x[3] \div 128>>
Shr1(x) ==
  <<(x[1] \div 2) + (x[2] % 2) * (2^27), (x[2] \div 2) + (x[3] % 2) * (2^27),
    x[3] \div 2>>
Shl1(x) ==
  <<(2 * x[1]) % (2^28), (2 * x[2] + (x[1] \div (2^27))) % (2^28),
    (2 * x[3] + (x[2] \div (2^27))) % 256>>
Not64(x) == <<(2^28) - 1 - x[1], (2^28) - 1 - x[2], 255 - x[3]>>
Below128(x) == x[1] < 128 /\ x[2] = 0 /\ x[3] = 0
OrGroup(x, g, i) ==
  CASE i < 4 -> <<x[1] + g * (128^i), x[2], x[3]>>
    [] i \in 4..7 -> <<x[1], x[2] + g * (128^(i - 4)), x[3]>>
    [] i = 8 -> <<x[1], x[2], x[3] + g>>
    [] OTHER -> <<x[1], x[2], x[3] + (g % 2) * 128>>

\* binary.PutUvarint: the bytes buf[:n]
RECURSIVE PutUvarint(_)
PutUvarint(x) ==
  IF Below128(x) THEN <<x[1]>>
  ELSE <<(x[1] % 128) + 128>> \o PutUvarint(Shr7(x))

\* binary.PutVarint: ux := uint64(x) << 1; if x < 0 { ux = ^ux }
PutVarint(x) == PutUvarint(IF x[3] >= 128 THEN Not64(Shl1(x)) ELSE Shl1(x))

\* a ReadUvarint over a reader that has read ahead all there was
RECURSIVE ReadUvarintBuffered(_, _, _)
ReadUvarintBuffered(rd, i, x) ==
  IF i = MaxVarintLen64 THEN [src |-> <<>>, err |-> ErrOverflow, val |-> x]
  ELSE IF rd = <<>>
    THEN [src |-> <<>>, err |-> IF i > 0 THEN ErrUnexpectedEOF ELSE EOF, val |-> x]
  ELSE IF Head(rd) < 128
    THEN IF i = MaxVarintLen64 - 1 /\ Head(rd) > 1
           THEN [src |-> <<>>, err |-> ErrOverflow, val |-> x]
           ELSE [src |-> <<>>, err |-> Nil, val |-> OrGroup(x, Head(rd), i)]
  ELSE ReadUvarintBuffered(Tail(rd), i + 1, OrGroup(x, Head(rd) % 128, i))

\* binary.ReadUvarint(ubr), ubr.ReadByte reading one byte of r at a time:
\* the loop from its i-th turn on, x being the value so far
RECURSIVE ReadUvarint(_, _, _)
ReadUvarint(rd, i, x) ==
  IF i = MaxVarintLen64 THEN [src |-> rd, err |-> ErrOverflow, val |-> x]
  ELSE IF rd = <<>>
    THEN [src |-> rd, err |-> IF i > 0 THEN ErrUnexpectedEOF ELSE EOF, val |-> x]
  ELSE IF Head(rd) < 128
    THEN IF i = MaxVarintLen64 - 1 /\ Head(rd) > 1
           THEN [src |-> Tail(rd), err |-> ErrOverflow, val |-> x]
           ELSE [src |-> Tail(rd), err |-> Nil, val |-> OrGroup(x, Head(rd), i)]
  ELSE ReadUvarint(Tail(rd), i + 1, OrGroup(x, Head(rd) % 128, i))

\* binary.ReadVarint: x := int64(ux >> 1); if ux&1 != 0 { x = ^x }
ReadVarint(rd) ==
  LET u == ReadUvarint(rd, 0, <<0, 0, 0>>)
  IN [u EXCEPT !.val = IF u.val[1] % 2 = 1 THEN Not64(Shr1(u.val)) ELSE Shr1(u.val)]

\* the Read or Write of a Varint or Uvarint runs; the write gives buf[:n] to
\* binary.Write, which writes bytes as they are in either byte order
VarintStep(t) ==
  /\ Running(t)
  /\ ~th[t].unwinding
  /\ Top(t).m.kind \in {"varint", "uvarint"}
  /\ LET f == Top(t)
         rd == IF f.m.kind = "varint" THEN ReadVarint(src[t])
               ELSE ReadUvarint(src[t], 0, <<0, 0, 0>>)
         bs == IF f.m.kind = "varint" THEN PutVarint(obj.x[f.m.t])
               ELSE PutUvarint(obj.x[f.m.t])
         e == IF f.dir = "R" THEN rd.err
              ELSE WriterErr(bs, wcap[t] - Len(sink[t]))
     IN /\ th' = [th EXCEPT ![t].stack = Pop(@), ![t].ret = e]
        /\ log' = [log EXCEPT ![t] = Append(@, RetEv(f.m, f.dir, e))]
        /\ IF f.dir = "R"
             THEN /\ src' = [src EXCEPT ![t] = rd.src]
                  /\ obj' = IF e = Nil THEN [obj EXCEPT !.x[f.m.t] = rd.val] ELSE obj
                  /\ UNCHANGED sink
             ELSE /\ sink' = [sink EXCEPT ![t] =
                               @ \o WriterTakes(bs, wcap[t] - Len(@))]
                  /\ UNCHANGED <<src, obj>>
  /\ UNCHANGED <<tgt, wcap, mutex, rwmutex, pre, tbl, order, ncalls, prev>>

(* ------------------------ SpecPanic: OnPanic -------------------------- *)

StepPanic(t) ==
  \/ LeafStep(t)
  \/ PanicStep(t)
  \/ SeqStep(t)
  \/ Unwind(t)
  \/ OnPanicCall(t)
  \/ OnPanicReturn(t)
  \/ Recover(t)

\* mappers that return nil or an error, panic at once, and panic after a
\* byte went through
PanicInner ==
  {Byte(1), nilMapping, PanicMapping, MapSequence(<<Byte(1), PanicMapping>>),
   MapSequence(<<Byte(1), Byte(2)>>)}

\* nil, func(any) error { return nil }, func(any) error { return ErrTest }
PanicHandlers == {NoHook, Returns(Nil), Returns(ErrTest)}

PanicPrograms ==
  PanicInner \cup {OnPanic(m, h) : m \in PanicInner, h \in PanicHandlers}

\* one goroutine calls
CallPanic ==
  \E m \in PanicPrograms :
    \/ \E rd \in {<<>>, <<1>>, <<1, 2>>} : Call(1, m, "R", rd, 0)
    \/ \E cap \in {0, 1, 2} : Call(1, m, "W", <<>>, cap)

NextPanic == CallPanic \/ StepPanic(1)

SpecPanic == Init /\ [][NextPanic]_vars

\* the events of t's call that are panics, and that are runs of a handler
PanicEvs(t) == SelectSeq(log[t], LAMBDA e : e.ev = "panic")
RecoverEvs(t) == SelectSeq(log[t], LAMBDA e : e.ev = "recover")

\* C15: no call of the Read or Write of OnPanic(m, h) ends in a panic.  When
\* m panicked, h (if not nil) ran once, with the panic value, and the call
\* returned ErrPanic if h is nil or returned nil, and otherwise an error
\* that wraps ErrPanic and carries h's error; either way errors.Is(err,
\* ErrPanic) holds.  When m returned, the call returned what m returned and h
\* did not run.
C15_OnPanicContainsPanics ==
  \A t \in Threads :
    (th[t].called /\ th[t].m.kind = "onpanic") =>
      LET m == th[t].m
          h == m.handler
          n == Len(log[t])
      IN /\ ~Panicked(t)
         /\ Returned(t) =>
              IF PanicEvs(t) # <<>>
                THEN /\ ErrorsIs(th[t].ret, ErrPanic)
                     /\ th[t].ret =
                          IF h = NoHook \/ h.e = Nil THEN ErrPanic
                          ELSE Errorf(ErrPanic, h.e)
                     /\ h = NoHook => RecoverEvs(t) = <<>>
                     /\ h # NoHook =>
                          /\ Len(RecoverEvs(t)) = 1
                          /\ RecoverEvs(t)[1].arg = PanicValue(th[t].dir)
                          /\ log[t][n - 1].ev = "recover"
                          /\ log[t][n - 2].ev = "panic"
                ELSE /\ RecoverEvs(t) = <<>>
                     /\ log[t][n - 1] = RetEv(m.mapper, th[t].dir, th[t].ret)

\* a panic raised after a byte was written was recovered and the handler's
\* error came back wrapped
C15_Witness ==
  /\ Returned(1) /\ th[1].dir = "W"
  /\ th[1].m = OnPanic(MapSequence(<<Byte(1), PanicMapping>>), Returns(ErrTest))
  /\ Len(sink[1]) = 1
  /\ th[1].ret = "panic during Read or Write: testing"

(* ------------------------- SpecSlice: slices -------------------------- *)

\* the caller sets the slice and the count before calling
Bufs == UNION {[1..n -> Bytes] : n \in 0..MaxLen}
SetObj ==
  /\ ~th[1].called /\ ncalls[1] = 0
  /\ \E b \in Bufs, c \in 0..MaxLen : obj' = [obj EXCEPT !.buf = b, !.count = c]
  /\ UNCHANGED <<th, tgt, src, sink, wcap, mutex, rwmutex, log, pre, tbl, order, ncalls, prev>>

\* test.len, test.data = 0, nil between a Write and a Read
ClearObj ==
  /\ ~th[1].called /\ ncalls[1] > 0
  /\ obj' = [obj EXCEPT !.buf = <<>>, !.count = 0]
  /\ UNCHANGED <<th, tgt, src, sink, wcap, mutex, rwmutex, log, pre, tbl, order, ncalls, prev>>

SlicePrograms ==
  {Slice(1, n) : n \in 0..MaxLen} \cup {FixedBytes(1, n) : n \in 0..MaxLen}
    \cup {LenBytes(1, 1), LenSlice(1, 1), DynamicSlice(1)}

SliceStreams == {<<>>, <<0>>, <<1>>, <<2, 1>>, <<1, 2, 1>>, <<2, 1, 2>>}

\* writers that take nothing, one byte, a 32-bit count and one byte, anything
SliceCaps == {0, 1, 5, 4 + MaxLen}

\* a first call reads a stream or writes; a second call reads what the
\* first, a Write by the same mapper, wrote, or the beginning of it
CallSlice ==
  \E m \in SlicePrograms, endian \in {BigEndian, LittleEndian} :
    \/ ncalls[1] = 0 /\ \E rd \in SliceStreams : CallWith(1, m, "R", rd, 0, endian)
    \/ ncalls[1] = 0 /\ \E cap \in SliceCaps : CallWith(1, m, "W", <<>>, cap, endian)
    \/ /\ prev[1].dir = "W" /\ m = prev[1].m /\ endian = prev[1].order
       /\ \E k \in 0..Len(prev[1].sink) :
            CallWith(1, m, "R", SubSeq(prev[1].sink, 1, k), 0, endian)

NextSlice == SetObj \/ ClearObj \/ CallSlice \/ DataStep(1) \/ Again

SpecSlice == Init /\ [][NextSlice]_vars

\* the call of thread 1 is a call of a mapper of these kinds that returned
Did(dir, kinds) ==
  Returned(1) /\ th[1].dir = dir /\ th[1].m.kind \in kinds

\* the call of thread 1 read all that the Write before it, by the same
\* mapper with the same byte order, wrote
ReadBack ==
  /\ th[1].called /\ th[1].dir = "R" /\ ncalls[1] = 1 /\ prev[1].dir = "W"
  /\ th[1].m = prev[1].m /\ pre[1].src = prev[1].sink

\* C16: a Write of Slice(target, count, f) that returns nil has written the
\* elements of the target, each once, in index order
C16_SliceWritesTargetContents ==
  (Did("W", {"slice"}) /\ th[1].ret = Nil) => sink[1] = pre[1].obj.buf

\* the first count elements of buf, zeros where buf has fewer
Padded(buf, count) ==
  [i \in 1..count |-> IF i <= Len(buf) THEN buf[i] ELSE 0]
\* as much of bs as a writer with room for cap bytes takes
UpTo(bs, cap) == IF Len(bs) <= cap THEN bs ELSE SubSeq(bs, 1, cap)

\* C17: a Write of LenBytes or LenSlice emits the value of the count field,
\* then that many elements: the first elements of the target, and zeros when
\* the target has fewer (as much of it as the writer takes; the caller's
\* struct is left alone); the count on the wire is the number of elements
\* after it.  A Read that returns nil has set the count field to the first
\* byte and the target to that many bytes after it.  When the count was the
\* length of the target, a Read of what the Write wrote returns nil with the
\* count and the target the Write had.
C17_CountFieldIsAuthoritative ==
  LET kinds == {"lenbytes", "lenslice"}
      O == pre[1].obj
      full == <<O.count>> \o Padded(O.buf, O.count)
  IN /\ Did("W", kinds) =>
          /\ sink[1] = UpTo(full, wcap[1])
          /\ th[1].ret = Nil <=> Len(full) <= wcap[1]
          /\ th[1].ret = Nil => sink[1][1] = Len(sink[1]) - 1
          /\ obj = O
     /\ (Did("R", kinds) /\ th[1].ret = Nil) =>
          /\ obj.count = pre[1].src[1]
          /\ Len(obj.buf) = obj.count
          /\ obj.buf = SubSeq(pre[1].src, 2, 1 + obj.count)
          /\ src[1] = SubSeq(pre[1].src, 2 + obj.count, Len(pre[1].src))
     /\ (Did("R", kinds) /\ ReadBack
           /\ prev[1].pre.obj.count = Len(prev[1].pre.obj.buf)) =>
          /\ th[1].ret = Nil
          /\ obj.count = prev[1].pre.obj.count
          /\ obj.buf = prev[1].pre.obj.buf

\* a LenSlice whose count was 2 over a slice of one element wrote the
\* element and a zero, and the cleared struct read them back
C17_Witness ==
  /\ Did("R", {"lenslice"}) /\ ReadBack /\ th[1].ret = Nil
  /\ prev[1].pre.obj.buf = <<1>> /\ prev[1].pre.obj.count = 2
  /\ prev[1].sink = <<2, 1, 0>>
  /\ pre[1].obj.buf = <<>> /\ pre[1].obj.count = 0
  /\ obj.buf = <<1, 0>> /\ obj.count = 2

\* C18: a Write of DynamicSlice emits the length of the target as 32 bits in
\* the byte order of the call and then the elements of the target in index
\* order (as much of it as the writer takes), whatever the caller's count
\* field holds; a Read that returns nil has given the target as many of the
\* following bytes as the 32 bits at the head of the stream say and left the
\* count field alone; a Read of what a Write wrote returns nil with the
\* target the Write had.
C18_DynamicSliceRoundTrip ==
  LET kinds == {"dynslice"}
      O == pre[1].obj
      full == Count32(order[1], Len(O.buf)) \o O.buf
  IN /\ Did("W", kinds) =>
          /\ sink[1] = UpTo(full, wcap[1])
          /\ th[1].ret = Nil <=> Len(full) <= wcap[1]
          /\ obj = O
     /\ (Did("R", kinds) /\ th[1].ret = Nil) =>
          /\ SubSeq(pre[1].src, 1, 4) = Count32(order[1], Len(obj.buf))
          /\ obj.buf = SubSeq(pre[1].src, 5, 4 + Len(obj.buf))
          /\ obj.count = O.count
     /\ (Did("R", kinds) /\ ReadBack) =>
          /\ th[1].ret = Nil
          /\ obj.buf = prev[1].pre.obj.buf

\* a slice of two elements written while the count field held 1 was read
\* back into the cleared struct
C18_Witness ==
  /\ Did("R", {"dynslice"}) /\ ReadBack /\ th[1].ret = Nil
  /\ order[1] = LittleEndian
  /\ prev[1].pre.obj.buf = <<1, 2>> /\ prev[1].pre.obj.count = 1
  /\ prev[1].sink = <<2, 0, 0, 0, 1, 2>>
  /\ pre[1].obj.buf = <<>>
  /\ obj.buf = <<1, 2>> /\ obj.count = 0

(* ---------------------------- SpecMap: Map ---------------------------- *)

\* the maps from bytes to bytes
Maps == UNION {[keys -> Bytes] : keys \in SUBSET Bytes}

\* the caller sets the map before calling, and may replace it between a
\* Write and a Read by one that holds every key
SetMap ==
  /\ ~th[1].called
  /\ IF ncalls[1] = 0
       THEN \E m \in Maps : obj' = [obj EXCEPT !.entries = m]
       ELSE obj' = [obj EXCEPT !.entries = [k \in Bytes |-> MaxByte]]
  /\ UNCHANGED <<th, tgt, src, sink, wcap, mutex, rwmutex, log, pre, tbl, order, ncalls, prev>>

\* streams with two entries, twice the same key, an entry missing, a value
\* missing, half a count
MapStreams(endian) ==
  {<<>>, <<0, 0>>, Count32(endian, 0), Count32(endian, 1) \o <<1>>,
   Count32(endian, 2) \o <<1, 2>>, Count32(endian, 2) \o <<1, 2, 2, 1>>,
   Count32(endian, 2) \o <<1, 1, 1, 2>>, Count32(endian, 2) \o <<0, 2, 0, 1, 1>>}

CallMap ==
  \E endian \in {BigEndian, LittleEndian} :
    \/ /\ ncalls[1] = 0
       /\ \E rd \in MapStreams(endian) : CallWith(1, Map(1), "R", rd, 0, endian)
    \/ /\ ncalls[1] = 0
       /\ \E cap \in {0, 4, 5, 4 + 2 * (MaxByte + 1)} :
            CallWith(1, Map(1), "W", <<>>, cap, endian)
    \/ /\ prev[1].dir = "W" /\ endian = prev[1].order
       /\ \E k \in {Len(prev[1].sink) - 1, Len(prev[1].sink)} :
            CallWith(1, Map(1), "R", SubSeq(prev[1].sink, 1, k), 0, endian)

NextMap == SetMap \/ CallMap \/ MapStep(1) \/ Again

SpecMap == Init /\ [][NextMap]_vars

\* the i-th key and the i-th value of a stream
KeyAt(bs, i) == bs[3 + 2 * i]
ValAt(bs, i) == bs[4 + 2 * i]

\* C19: a Write of Map that returns nil has emitted the number n of entries
\* of the map as 32 bits, then n pairs of a key and its value, every key of
\* the map once; a writer too small for that makes it fail.  A Read that
\* returns nil has replaced the target by the map that holds, for every key
\* among the decoded pairs, the value of the last pair with that key, and
\* nothing else; so a Read of what a Write wrote returns nil with the map the
\* Write had, whatever the target held.
C19_MapRoundTrip ==
  LET M == pre[1].obj.entries
      n == Cardinality(DOMAIN M)
      input == pre[1].src
      l == (Len(input) - Len(src[1]) - 4) \div 2
  IN /\ Did("W", {"map"}) =>
          /\ th[1].ret = Nil <=> 4 + 2 * n <= wcap[1]
          /\ th[1].ret # Nil => Len(sink[1]) = wcap[1]
          /\ th[1].ret = Nil =>
               /\ Len(sink[1]) = 4 + 2 * n
               /\ SubSeq(sink[1], 1, 4) = Count32(order[1], n)
               /\ {KeyAt(sink[1], i) : i \in 1..n} = DOMAIN M
               /\ \A i \in 1..n : ValAt(sink[1], i) = M[KeyAt(sink[1], i)]
          /\ obj.entries = M
     /\ (Did("R", {"map"}) /\ th[1].ret = Nil) =>
          /\ SubSeq(input, 1, 4) = Count32(order[1], l)
          /\ DOMAIN obj.entries = {KeyAt(input, i) : i \in 1..l}
          /\ \A i \in 1..l :
               (\A j \in (i + 1)..l : KeyAt(input, j) # KeyAt(input, i)) =>
                 obj.entries[KeyAt(input, i)] = ValAt(input, i)
     /\ (Did("R", {"map"}) /\ th[1].ret # Nil) => obj.entries = M
     /\ (Did("R", {"map"}) /\ ReadBack) =>
          /\ th[1].ret = Nil
          /\ obj.entries = prev[1].pre.obj.entries

\* a map of two entries was written, the caller's map was replaced by one
\* that holds every key, and the Read gave back the two entries only
C19_Witness ==
  /\ Did("R", {"map"}) /\ ReadBack /\ th[1].ret = Nil
  /\ DOMAIN prev[1].pre.obj.entries = {1, 2}
  /\ prev[1].pre.obj.entries[1] = 2 /\ prev[1].pre.obj.entries[2] = 0
  /\ KeyAt(prev[1].sink, 1) = 2
  /\ DOMAIN pre[1].obj.entries = Bytes
  /\ DOMAIN obj.entries = {1, 2} /\ obj.entries[1] = 2 /\ obj.entries[2] = 0

\* a stream that holds the key 1 twice was read: the later value stayed
C19_WitnessDuplicate ==
  /\ Did("R", {"map"}) /\ th[1].ret = Nil
  /\ pre[1].src = Count32(BigEndian, 2) \o <<1, 1, 1, 2>>
  /\ DOMAIN obj.entries = {1} /\ obj.entries[1] = 2

(* ----------------------- SpecVarint: varints -------------------------- *)

\* 0, 1, 63, 64, 128, 257, 2^28 - 1, 2^28, the largest int64, and as int64
\* the smallest, -1 (as uint64 the largest) and -65
VarintValues ==
  {<<0, 0, 0>>, <<1, 0, 0>>, <<63, 0, 0>>, <<64, 0, 0>>, <<128, 0, 0>>,
   <<257, 0, 0>>, <<(2^28) - 1, 0, 0>>, <<0, 1, 0>>, <<(2^28) - 1, (2^28) - 1, 127>>,
   <<0, 0, 128>>, <<(2^28) - 1, (2^28) - 1, 255>>, <<(2^28) - 65, (2^28) - 1, 255>>}

\* v1, v2 := ..., ... before the first call; v1, v2 = 0, 0 after it
SetX ==
  /\ ~th[1].called
  /\ IF ncalls[1] = 0
       THEN \E a, b \in VarintValues : obj' = [obj EXCEPT !.x = <<a, b>>]
       ELSE obj' = [obj EXCEPT !.x = <<<<0, 0, 0>>, <<0, 0, 0>>>>]
  /\ UNCHANGED <<th, tgt, src, sink, wcap, mutex, rwmutex, log, pre, tbl, order, ncalls, prev>>

VarintPrograms ==
  {Varint(1), Uvarint(1), MapSequence(<<Varint(1), Varint(2)>>),
   MapSequence(<<Uvarint(1), Uvarint(2)>>)}

\* nothing, a byte that announces another, ten bytes that announce another,
\* a tenth byte above 1, two one-byte values
VarintStreams ==
  {<<>>, <<128>>, [i \in 1..10 |-> 255], [i \in 1..10 |-> IF i < 10 THEN 128 ELSE 2],
   <<3, 4>>}

\* a first call reads a stream or writes; a second call reads, in either
\* byte order, what the first, a Write by the same mapper, wrote, and a byte
\* after it
CallVarint ==
  \E m \in VarintPrograms, endian \in {BigEndian, LittleEndian} :
    \/ ncalls[1] = 0 /\ \E rd \in VarintStreams : CallWith(1, m, "R", rd, 0, endian)
    \/ ncalls[1] = 0 /\ \E cap \in {0, 1, 2 * MaxVarintLen64} :
                          CallWith(1, m, "W", <<>>, cap, endian)
    \/ /\ prev[1].dir = "W" /\ m = prev[1].m
       /\ \E more \in {<<>>, <<7>>} :
            CallWith(1, m, "R", prev[1].sink \o more, 0, endian)

NextVarint == SetX \/ CallVarint \/ SeqStep(1) \/ VarintStep(1) \/ Again

SpecVarint == Init /\ [][NextVarint]_vars

\* the integers the top-level mapper of thread 1 points to
Pointed(m) == IF m.kind = "seq" THEN {1, 2} ELSE {1}

\* C20: a Read, in either byte order, of the bytes a Write of Varint or
\* Uvarint mappers wrote (one, or two in a MapSequence), followed or not by
\* another byte, returns nil, gives every integer the value it had when
\* written, and leaves in the reader what followed the written bytes
C20_VarintRoundTrip ==
  (/\ Returned(1) /\ th[1].dir = "R" /\ ncalls[1] = 1
   /\ prev[1].dir = "W" /\ th[1].m = prev[1].m) =>
    /\ th[1].ret = Nil
    /\ \A k \in Pointed(th[1].m) : obj.x[k] = prev[1].pre.obj.x[k]
    /\ prev[1].sink \o src[1] = pre[1].src
    /\ Len(src[1]) <= 1

\* the smallest int64 and 257 were written as signed varints in big-endian
\* order and read back in little-endian order into integers set to 0, a byte
\* that followed them being left in the reader
C20_Witness ==
  /\ Returned(1) /\ th[1].dir = "R" /\ ncalls[1] = 1 /\ th[1].ret = Nil
  /\ th[1].m = MapSequence(<<Varint(1), Varint(2)>>) /\ prev[1].m = th[1].m
  /\ prev[1].order = BigEndian /\ order[1] = LittleEndian
  /\ prev[1].pre.obj.x = <<<<0, 0, 128>>, <<257, 0, 0>>>>
  /\ prev[1].sink = [i \in 1..10 |-> IF i < 10 THEN 255 ELSE 1] \o <<130, 4>>
  /\ pre[1].obj.x = <<<<0, 0, 0>>, <<0, 0, 0>>>>
  /\ obj.x = <<<<0, 0, 128>>, <<257, 0, 0>>>>
  /\ src[1] = <<7>>

(* ------------------------------ strings ------------------------------- *)

\* the reads and writes of the mappers over the caller's string obj.str

\* a trim that cuts the bytes at the first zero byte
TrimAtFirstZero(bs) ==
  LET zeros == {i \in 1..Len(bs) : bs[i] = 0}
  IN IF zeros = {} THEN bs
     ELSE SubSeq(bs, 1, (CHOOSE i \in zeros : \A j \in zeros : i <= j) - 1)

\* bytes.TrimRightFunc(buf, func(r rune) bool { return r == 0 }): the runes
\* are decoded from the right end, and only the byte 0 decodes to the rune 0
RECURSIVE TrimRightZeros(_)
TrimRightZeros(bs) ==
  IF bs # <<>> /\ bs[Len(bs)] = 0
    THEN TrimRightZeros(SubSeq(bs, 1, Len(bs) - 1))
    ELSE bs

\* FixedString's read: binary.Read of length bytes, the trim, *s = string(buf);
\* its write: bs := make([]byte, length); copy(bs, *s); binary.Write
FixedStringRead(length, O, rd) ==
  [src |-> ReadFullRest(rd, length),
   obj |-> IF ReadFullErr(rd, length) = Nil
             THEN [O EXCEPT !.str = TrimRightZeros(SubSeq(rd, 1, length))] ELSE O,
   err |-> ReadFullErr(rd, length)]
FixedStringWrite(length, O, room) ==
  [sink |-> WriterTakes(MakeCopy(length, O.str), room),
   err |-> WriterErr(MakeCopy(length, O.str), room)]

\* a loop over a reader that has read ahead all there was
RECURSIVE NullTermStringLoopBuffered(_, _, _)
NullTermStringLoopBuffered(O, rd, buf) ==
  IF rd = <<>> THEN [src |-> rd, obj |-> O, err |-> EOF]
  ELSE IF Head(rd) = 0
    THEN [src |-> <<>>, obj |-> [O EXCEPT !.str = buf], err |-> Nil]
  ELSE NullTermStringLoopBuffered(O, Tail(rd), Append(buf, Head(rd)))

\* the loop of NullTermString's read: ubr.ReadByte takes one byte of the
\* reader, or returns the reader's error; a zero byte ends the loop with
\* *s = buf.String(), any other byte is added to buf
RECURSIVE NullTermStringLoop(_, _, _)
NullTermStringLoop(O, rd, buf) ==
  IF rd = <<>> THEN [src |-> rd, obj |-> O, err |-> EOF]
  ELSE IF Head(rd) = 0
    THEN [src |-> Tail(rd), obj |-> [O EXCEPT !.str = buf], err |-> Nil]
  ELSE NullTermStringLoop(O, Tail(rd), Append(buf, Head(rd)))

NullTermStringRead(O, rd) == NullTermStringLoop(O, rd, <<>>)

\* NullTermString's write: bs := append([]byte(*s), 0); binary.Write
NullTermStringWrite(O, room) ==
  [sink |-> WriterTakes(Append(O.str, 0), room),
   err |-> WriterErr(Append(O.str, 0), room)]

\* utf8.RuneError, unicode.ReplacementChar: U+FFFD
RuneError == 65533

\* the rune at the head of the bytes bs of a string and the number of bytes
\* it takes, as []rune(s) decodes it: bytes that are no UTF-8 encoding give
\* RuneError and take one byte
DecodeRune(bs) ==
  LET n == Len(bs)
      b == bs[1]
      cont(i) == i <= n /\ bs[i] >= 128 /\ bs[i] <= 191
      second(lo, hi) == n >= 2 /\ bs[2] >= lo /\ bs[2] <= hi
      bad == [rune |-> RuneError, width |-> 1]
  IN IF b < 128 THEN [rune |-> b, width |-> 1]
     ELSE IF b >= 194 /\ b <= 223
       THEN IF cont(2)
              THEN [rune |-> (b % 32) * 64 + (bs[2] % 64), width |-> 2]
              ELSE bad
     ELSE IF b >= 224 /\ b <= 239
       THEN IF /\ second(IF b = 224 THEN 160 ELSE 128, IF b = 237 THEN 159 ELSE 191)
               /\ cont(3)
              THEN [rune |-> (b % 16) * 4096 + (bs[2] % 64) * 64 + (bs[3] % 64),
                    width |-> 3]
              ELSE bad
     ELSE IF b >= 240 /\ b <= 244
       THEN IF /\ second(IF b = 240 THEN 144 ELSE 128, IF b = 244 THEN 143 ELSE 191)
               /\ cont(3) /\ cont(4)
              THEN [rune |-> (b % 8) * 262144 + (bs[2] % 64) * 4096
                               + (bs[3] % 64) * 64 + (bs[4] % 64),
                    width |-> 4]
              ELSE bad
     ELSE bad

\* []rune(*s)
RECURSIVE Runes(_)
Runes(bs) ==
  IF bs = <<>> THEN <<>>
  ELSE <<DecodeRune(bs).rune>>
         \o Runes(SubSeq(bs, DecodeRune(bs).width + 1, Len(bs)))

\* utf16.AppendRune(a, r)
AppendRune(a, r) ==
  IF (0 <= r /\ r < 55296) \/ (57344 <= r /\ r < 65536) THEN Append(a, r)
  ELSE IF 65536 <= r /\ r <= 1114111
    THEN a \o <<55296 + (((r - 65536) \div 1024) % 1024), 56320 + ((r - 65536) % 1024)>>
  ELSE Append(a, RuneError)

\* for _, ru := range []rune(*s) { u16str = utf16.AppendRune(u16str, ru) }
RECURSIVE AppendRunes(_, _)
AppendRunes(a, rs) ==
  IF rs = <<>> THEN a ELSE AppendRunes(AppendRune(a, Head(rs)), Tail(rs))

\* utf16.Decode([]uint16{wchar})[0]: a surrogate with no code unit after it
\* in the slice is RuneError
DecodeUnit(wchar) ==
  IF wchar < 55296 \/ wchar >= 57344 THEN wchar ELSE RuneError

\* utf8.EncodeRune(u8s, r); u8s[:n]
EncodeRune(r) ==
  IF r < 128 THEN <<r>>
  ELSE IF r < 2048 THEN <<192 + (r \div 64), 128 + (r % 64)>>
  ELSE IF r >= 55296 /\ r < 57344 THEN <<239, 191, 189>>
  ELSE IF r < 65536
    THEN <<224 + (r \div 4096), 128 + ((r \div 64) % 64), 128 + (r % 64)>>
  ELSE <<240 + (r \div 262144), 128 + ((r \div 4096) % 64),
         128 + ((r \div 64) % 64), 128 + (r % 64)>>

\* the two bytes binary.Write makes of a uint16, and the uint16 binary.Read
\* makes of two bytes
PutUint16(endian, v) ==
  IF endian = BigEndian THEN <<v \div 256, v % 256>> ELSE <<v % 256, v \div 256>>
GetUint16(endian, bs) ==
  IF endian = BigEndian THEN bs[1] * 256 + bs[2] ELSE bs[2] * 256 + bs[1]

\* binary.Write(w, endian, u16str): the bytes of the code units
RECURSIVE PutUint16s(_, _)
PutUint16s(endian, ws) ==
  IF ws = <<>> THEN <<>>
  ELSE PutUint16(endian, Head(ws)) \o PutUint16s(endian, Tail(ws))

\* the loop of Uni16NullTermString's read: binary.Read of a uint16 wchar; 0
\* ends the loop with *s = buf.String(); any other is decoded on its own and
\* the UTF-8 bytes of the rune are added to buf
RECURSIVE Uni16Loop(_, _, _, _)
Uni16Loop(endian, O, rd, buf) ==
  IF ReadFullErr(rd, 2) # Nil
    THEN [src |-> ReadFullRest(rd, 2), obj |-> O, err |-> ReadFullErr(rd, 2)]
  ELSE IF GetUint16(endian, SubSeq(rd, 1, 2)) = 0
    THEN [src |-> ReadFullRest(rd, 2), obj |-> [O EXCEPT !.str = buf], err |-> Nil]
  ELSE Uni16Loop(endian, O, ReadFullRest(rd, 2),
                 buf \o EncodeRune(DecodeUnit(GetUint16(endian, SubSeq(rd, 1, 2)))))

Uni16NullTermStringRead(endian, O, rd) == Uni16Loop(endian, O, rd, <<>>)

\* Uni16NullTermString's write: the code units of the runes of *s, a 0 after
\* them, binary.Write
Uni16NullTermStringWrite(endian, O, room) ==
  LET bytes == PutUint16s(endian, Append(AppendRunes(<<>>, Runes(O.str)), 0))
  IN [sink |-> WriterTakes(bytes, room), err |-> WriterErr(bytes, room)]

\* m.read(r, endian) and m.write(w, endian) of the string mappers
StringRead(m, endian, O, rd) ==
  CASE m.kind = "fixedstring" -> FixedStringRead(m.n, O, rd)
    [] m.kind = "nulltermstring" -> NullTermStringRead(O, rd)
    [] m.kind = "uni16nulltermstring" -> Uni16NullTermStringRead(endian, O, rd)
StringWrite(m, endian, O, room) ==
  CASE m.kind = "fixedstring" -> FixedStringWrite(m.n, O, room)
    [] m.kind = "nulltermstring" -> NullTermStringWrite(O, room)
    [] m.kind = "uni16nulltermstring" -> Uni16NullTermStringWrite(endian, O, room)

\* the Read or Write of a string mapper runs
StringStep(t) ==
  /\ Running(t)
  /\ ~th[t].unwinding
  /\ Top(t).m.kind \in {"fixedstring", "nulltermstring", "uni16nulltermstring"}
  /\ LET f == Top(t)
         rd == StringRead(f.m, Endian(t), obj, src[t])
         wr == StringWrite(f.m, Endian(t), obj, wcap[t] - Len(sink[t]))
         e == IF f.dir = "R" THEN rd.err ELSE wr.err
     IN /\ th' = [th EXCEPT ![t].stack = Pop(@), ![t].ret = e]
        /\ log' = [log EXCEPT ![t] = Append(@, RetEv(f.m, f.dir, e))]
        /\ IF f.dir = "R"
             THEN /\ src' = [src EXCEPT ![t] = rd.src]
                  /\ obj' = rd.obj
                  /\ UNCHANGED sink
             ELSE /\ sink' = [sink EXCEPT ![t] = @ \o wr.sink]
                  /\ UNCHANGED <<src, obj>>
  /\ UNCHANGED <<tgt, wcap, mutex, rwmutex, pre, tbl, order, ncalls, prev>>

(* ------------------------ SpecString: strings ------------------------- *)

\* the bytes of the strings: the byte values, and one that is no UTF-8
Chars == Bytes \cup {255}
Strings == UNION {[1..n -> Chars] : n \in 0..(MaxLen + 1)}

\* s := ... before the first call; s = "" after it
SetStr ==
  /\ ~th[1].called
  /\ IF ncalls[1] = 0
       THEN \E s \in Strings : obj' = [obj EXCEPT !.str = s]
       ELSE obj' = [obj EXCEPT !.str = <<>>]
  /\ UNCHANGED <<th, tgt, src, sink, wcap, mutex, rwmutex, log, pre, tbl, order, ncalls, prev>>

\* MapSequence(NullTermString(&s), Byte(&a))
StringThenByte == MapSequence(<<NullTermString(1), Byte(1)>>)

StringPrograms ==
  {NullTermString(1), StringThenByte}
    \cup {FixedString(1, n) : n \in 0..(MaxLen + 1)}

\* streams without a zero byte, with one at the head, in the middle, at the
\* end, and with two
StringStreams ==
  {<<>>, <<0>>, <<1>>, <<1, 2>>, <<1, 0>>, <<0, 0, 1>>, <<1, 2, 0, 2>>,
   <<2, 0, 1, 0>>, <<255, 0, 0>>}

\* a first call reads a stream or writes; a second call reads what the
\* first, a Write by the same mapper, wrote, followed or not by another byte
CallString ==
  \E m \in StringPrograms :
    \/ ncalls[1] = 0 /\ \E rd \in StringStreams : Call(1, m, "R", rd, 0)
    \/ ncalls[1] = 0 /\ \E cap \in {0, 1, MaxLen + 3} : Call(1, m, "W", <<>>, cap)
    \/ /\ prev[1].dir = "W" /\ m = prev[1].m
       /\ \E more \in {<<>>, <<1>>} : Call(1, m, "R", prev[1].sink \o more, 0)

NextString ==
  SetStr \/ CallString \/ LeafStep(1) \/ SeqStep(1) \/ StringStep(1) \/ Again

SpecString == Init /\ [][NextString]_vars

\* the place of the first zero byte of bs, 0 when it has none
FirstZero(bs) ==
  LET zeros == {i \in 1..Len(bs) : bs[i] = 0}
  IN IF zeros = {} THEN 0 ELSE CHOOSE i \in zeros : \A j \in zeros : i <= j

\* C21: a Write of NullTermString emits the bytes of the string and one zero
\* byte after them (as much of it as the writer takes).  A Read of a stream
\* that holds a zero byte returns nil, has taken the bytes up to and
\* including the first zero byte and no byte after it, and has set the target
\* to the bytes before that zero: a Byte mapper after it in a MapSequence
\* reads the byte that follows the zero.  A Read of a stream without a zero
\* byte returns the error of the stream and leaves the target as it was.
C21_NullTermStringFraming ==
  LET O == pre[1].obj
      input == pre[1].src
      z == FirstZero(input)
      full == O.str \o <<0>>
  IN /\ Did("W", {"nulltermstring"}) =>
          /\ sink[1] = UpTo(full, wcap[1])
          /\ th[1].ret = Nil <=> Len(full) <= wcap[1]
          /\ th[1].ret = Nil =>
               /\ sink[1][Len(sink[1])] = 0
               /\ SubSeq(sink[1], 1, Len(sink[1]) - 1) = O.str
          /\ obj = O
     /\ Did("R", {"nulltermstring"}) =>
          /\ th[1].ret = Nil <=> z # 0
          /\ z # 0 =>
               /\ obj.str = SubSeq(input, 1, z - 1)
               /\ src[1] = SubSeq(input, z + 1, Len(input))
          /\ z = 0 => th[1].ret = EOF /\ obj = O /\ src[1] = <<>>
     /\ (Returned(1) /\ th[1].m = StringThenByte /\ th[1].dir = "R"
           /\ z # 0 /\ z < Len(input)) =>
          /\ th[1].ret = Nil
          /\ obj.str = SubSeq(input, 1, z - 1)
          /\ tgt[1] = input[z + 1]
          /\ src[1] = SubSeq(input, z + 2, Len(input))

\* a string was read up to the first of two zero bytes, the byte between
\* them went to the Byte mapper and the second zero stayed in the reader
C21_Witness ==
  /\ Returned(1) /\ th[1].m = StringThenByte /\ th[1].dir = "R"
  /\ pre[1].src = <<2, 0, 1, 0>> /\ pre[1].obj.str = <<1, 1>> /\ pre[1].tgt[1] = 0
  /\ th[1].ret = Nil /\ obj.str = <<2>> /\ tgt[1] = 1 /\ src[1] = <<0>>

\* a Read met the end of the stream before a zero byte
C21_WitnessNoZero ==
  /\ Did("R", {"nulltermstring"}) /\ pre[1].src = <<1, 2>>
  /\ pre[1].obj.str = <<2>> /\ th[1].ret = EOF /\ obj.str = <<2>>

\* C22: a Write of FixedString(target, n) emits n bytes: the bytes of the
\* string, the first n of them when it has more, and zeros after them when it
\* has fewer (as much of it as the writer takes; a writer with room makes
\* it return nil).  A Read that returns nil has taken n bytes and set the
\* target to them without the zero bytes at their end.  So a Read of what a
\* Write wrote of a string of at most n bytes that does not end in a zero
\* byte returns nil with that string, zero bytes inside it included.
C22_FixedStringRoundTrip ==
  LET O == pre[1].obj
      n == th[1].m.n
      input == pre[1].src
      full == Padded(O.str, n)
      kept == {k \in 0..n : \A i \in (k + 1)..n : input[i] = 0}
  IN /\ Did("W", {"fixedstring"}) =>
          /\ Len(full) = n
          /\ sink[1] = UpTo(full, wcap[1])
          /\ th[1].ret = Nil <=> n <= wcap[1]
          /\ obj = O
     /\ Did("R", {"fixedstring"}) =>
          /\ th[1].ret = Nil <=> Len(input) >= n
          /\ th[1].ret = Nil =>
               /\ src[1] = SubSeq(input, n + 1, Len(input))
               /\ \E k \in kept :
                    /\ obj.str = SubSeq(input, 1, k)
                    /\ \A j \in kept : k <= j
          /\ th[1].ret # Nil => obj = O
     /\ (Did("R", {"fixedstring"}) /\ ncalls[1] = 1 /\ prev[1].dir = "W"
           /\ th[1].m = prev[1].m
           /\ Len(prev[1].pre.obj.str) <= n
           /\ (prev[1].pre.obj.str = <<>>
                 \/ prev[1].pre.obj.str[Len(prev[1].pre.obj.str)] # 0)) =>
          /\ th[1].ret = Nil
          /\ obj.str = prev[1].pre.obj.str

\* a string with a zero byte inside it, written into three bytes and read back
\* into the cleared string
C22_Witness ==
  /\ Did("R", {"fixedstring"}) /\ ncalls[1] = 1 /\ prev[1].dir = "W"
  /\ th[1].m = FixedString(1, MaxLen + 1) /\ prev[1].m = th[1].m
  /\ prev[1].pre.obj.str = <<1, 0, 2>> /\ pre[1].obj.str = <<>>
  /\ th[1].ret = Nil /\ obj.str = <<1, 0, 2>>

\* a string of one byte was padded with zeros, and the zeros were removed
C22_WitnessPadded ==
  /\ Did("R", {"fixedstring"}) /\ ncalls[1] = 1 /\ prev[1].dir = "W"
  /\ prev[1].m = th[1].m /\ prev[1].pre.obj.str = <<2>>
  /\ prev[1].sink = <<2, 0, 0>> /\ th[1].ret = Nil /\ obj.str = <<2>>

(* -------------------- SpecEndian: OverrideEndian ---------------------- *)

Orders == {BigEndian, LittleEndian}

\* OverrideEndian over a mapper that writes a 32-bit length, alone, after and
\* before such a mapper in a MapSequence, inside another OverrideEndian, and
\* over a mapper that returns an error
Overridden(e) == OverrideEndian(DynamicSlice(1), e)
PlainThenOverridden(e) == MapSequence(<<DynamicSlice(1), Overridden(e)>>)
OverriddenThenPlain(e) == MapSequence(<<Overridden(e), DynamicSlice(1)>>)
EndianPrograms ==
  UNION {{Overridden(e), PlainThenOverridden(e), OverriddenThenPlain(e),
          OverrideEndian(nilMapping, e)} : e \in Orders}
    \cup {OverrideEndian(Overridden(e), o) : e \in Orders, o \in Orders}

\* streams of one or two slices, each with its length in either byte order,
\* and streams that end within a length
EndianStreams ==
  {<<>>, <<0, 0>>}
    \cup {Count32(a, n) \o [i \in 1..n |-> 2] \o rest :
            a \in Orders, n \in {0, 1},
            rest \in {<<>>} \cup {Count32(b, 1) \o <<1>> : b \in Orders}}

CallEndian ==
  \E m \in EndianPrograms, endian \in Orders :
    \/ \E rd \in EndianStreams : CallWith(1, m, "R", rd, 0, endian)
    \/ \E cap \in {0, 4, 8 + 2 * MaxLen} : CallWith(1, m, "W", <<>>, cap, endian)

NextEndian ==
  SetObj \/ CallEndian \/ LeafStep(1) \/ SeqStep(1) \/ OverrideStep(1) \/ DataStep(1)

SpecEndian == Init /\ [][NextEndian]_vars

\* what two reads one after the other give, and two writes
ReadBoth(first, second) == IF first.err # Nil THEN first ELSE second

\* C23: a Read or Write of OverrideEndian(m, e) under any byte order is a
\* Read or Write of m under e: it takes or emits the same bytes, leaves the
\* caller's struct as m would and returns the error m returned.  A Write of
\* OverrideEndian(DynamicSlice, e) so emits the length in the order e; in a
\* MapSequence under the order o the DynamicSlice beside it keeps the order
\* o; of two OverrideEndian one inside the other the inner one decides.
C23_OverrideEndianFixesOrder ==
  LET m == th[1].m
      O == pre[1].obj
      input == pre[1].src
      o == order[1]
      room == wcap[1]
      n == Len(O.buf)
      Outcome(rd, wr) ==
        IF th[1].dir = "R"
          THEN th[1].ret = rd.err /\ src[1] = rd.src /\ obj = rd.obj
          ELSE th[1].ret = wr.err /\ sink[1] = wr.sink /\ obj = O
  IN Returned(1) =>
       /\ \A e \in Orders :
            /\ m = Overridden(e) =>
                 /\ Outcome(DynamicSliceRead(e, O, input),
                            DynamicSliceWrite(e, O, room))
                 /\ th[1].dir = "W" => sink[1] = UpTo(Count32(e, n) \o O.buf, room)
                 /\ (th[1].dir = "R" /\ th[1].ret = Nil) =>
                      SubSeq(input, 1, 4) = Count32(e, Len(obj.buf))
            /\ m = PlainThenOverridden(e) =>
                 /\ LET r == DynamicSliceRead(o, O, input)
                    IN Outcome(ReadBoth(r, DynamicSliceRead(e, r.obj, r.src)),
                               WriteBoth(DynamicSliceWrite(o, O, room),
                                         DynamicSliceWrite(e, O, room - 4 - n)))
                 /\ th[1].dir = "W" =>
                      sink[1] = UpTo(Count32(o, n) \o O.buf \o Count32(e, n) \o O.buf,
                                     room)
            /\ m = OverriddenThenPlain(e) =>
                 /\ LET r == DynamicSliceRead(e, O, input)
                    IN Outcome(ReadBoth(r, DynamicSliceRead(o, r.obj, r.src)),
                               WriteBoth(DynamicSliceWrite(e, O, room),
                                         DynamicSliceWrite(o, O, room - 4 - n)))
                 /\ th[1].dir = "W" =>
                      sink[1] = UpTo(Count32(e, n) \o O.buf \o Count32(o, n) \o O.buf,
                                     room)
            /\ (m.kind = "override" /\ m.mapper = Overridden(e)) =>
                 Outcome(DynamicSliceRead(e, O, input), DynamicSliceWrite(e, O, room))
            /\ m = OverrideEndian(nilMapping, e) =>
                 /\ th[1].ret = ErrNilReadWrite
                 /\ src[1] = input /\ sink[1] = <<>> /\ obj = O
       /\ m.kind = "override" =>
            /\ Len(InnerCalls(1)) = 1 /\ Len(InnerRets(1)) = 1
            /\ th[1].ret = InnerRets(1)[1].e

\* a Write under the big-endian order of a slice of one element, by a
\* DynamicSlice and then by an OverrideEndian to the little-endian order
C23_Witness ==
  /\ Returned(1) /\ th[1].dir = "W" /\ order[1] = BigEndian
  /\ th[1].m = PlainThenOverridden(LittleEndian)
  /\ pre[1].obj.buf = <<2>> /\ th[1].ret = Nil
  /\ sink[1] = <<0, 0, 0, 1, 2, 1, 0, 0, 0, 2>>

\* a Read under the big-endian order through an OverrideEndian to the
\* little-endian order, of a slice whose length is in the little-endian order
C23_WitnessRead ==
  /\ Returned(1) /\ th[1].dir = "R" /\ order[1] = BigEndian
  /\ th[1].m = Overridden(LittleEndian)
  /\ pre[1].src = <<1, 0, 0, 0, 2>> /\ pre[1].obj.buf = <<>>
  /\ th[1].ret = Nil /\ obj.buf = <<2>> /\ src[1] = <<>>

(* ------------------- SpecWide: Uni16NullTermString -------------------- *)

\* "", "Go", "é" (U+00E9), "€" (U+20AC), "😀" (U+1F600), "a😀b", and a byte
\* that is no UTF-8
WideStrings ==
  {<<>>, <<71, 111>>, <<195, 169>>, <<226, 130, 172>>, <<240, 159, 152, 128>>,
   <<97, 240, 159, 152, 128, 98>>, <<255>>}

\* s := ... before the first call; s = "" after it
SetWide ==
  /\ ~th[1].called
  /\ IF ncalls[1] = 0
       THEN \E s \in WideStrings : obj' = [obj EXCEPT !.str = s]
       ELSE obj' = [obj EXCEPT !.str = <<>>]
  /\ UNCHANGED <<th, tgt, src, sink, wcap, mutex, rwmutex, log, pre, tbl, order, ncalls, prev>>

\* "Go" in either byte order, half a code unit, no terminator, a low
\* surrogate on its own
WideStreams ==
  {<<>>, <<0>>, <<0, 71, 0, 111, 0, 0>>, <<71, 0, 111, 0, 0, 0>>, <<0, 71, 0>>,
   <<0, 71>>, <<222, 0, 0, 0>>}

\* a first call reads a stream or writes; a second call reads what the
\* first, a Write, wrote
CallWide ==
  \E endian \in {BigEndian, LittleEndian} :
    \/ /\ ncalls[1] = 0
       /\ \E rd \in WideStreams :
            CallWith(1, Uni16NullTermString(1), "R", rd, 0, endian)
    \/ /\ ncalls[1] = 0
       /\ \E cap \in {0, 3, 16} :
            CallWith(1, Uni16NullTermString(1), "W", <<>>, cap, endian)
    \/ /\ prev[1].dir = "W" /\ endian = prev[1].order
       /\ CallWith(1, Uni16NullTermString(1), "R", prev[1].sink, 0, endian)

NextWide == SetWide \/ CallWide \/ StringStep(1) \/ Again

SpecWide == Init /\ [][NextWide]_vars

\* C24: a Read by Uni16NullTermString of what its Write wrote of a string
\* that holds a code point above U+FFFF returns nil and sets the target to
\* that string
C24_SurrogatePairsRoundTrip ==
  (/\ Did("R", {"uni16nulltermstring"}) /\ ReadBack
   /\ \E i \in 1..Len(Runes(prev[1].pre.obj.str)) :
        Runes(prev[1].pre.obj.str)[i] > 65535) =>
    /\ th[1].ret = Nil
    /\ obj.str = prev[1].pre.obj.str

(* --------------- SpecTable: calls on a table used before ---------------- *)

\* the call of thread 1 is a call of the DataTable in direction dir that
\* returned
DidTable(dir) == Returned(1) /\ th[1].m.kind = "table" /\ th[1].dir = dir

\* thread 1 has called the DataTable again, in direction dir, the call
\* before having been in direction before (a Write that returned nil, or a
\* Read)
Followed(before, dir) ==
  /\ th[1].called /\ th[1].m.kind = "table" /\ th[1].dir = dir
  /\ ncalls[1] >= 1 /\ prev[1].dir = before /\ prev[1].m = th[1].m

\* C25: the cursor wrPtr of a column goes up by one with every element the
\* column wrote and never comes down.  So a Write of a DataTable of n > 0
\* rows that follows a Write of it that returned nil passes the check of the
\* lengths, emits the row count (the writer having room for it) and returns
\* the end-of-source-buffer error without an element written.
C25_SecondWriteFailsAtFirstElement ==
  /\ DidTable("W") =>
       \A k \in 1..th[1].m.n :
         /\ tbl.wrPtr[k] >= pre[1].tbl.wrPtr[k]
         /\ tbl.wrPtr[k] - pre[1].tbl.wrPtr[k] =
              Cardinality({i \in 5..Len(sink[1]) : (i - 5) % th[1].m.n = k - 1})
  /\ DidTable("R") => tbl.wrPtr = pre[1].tbl.wrPtr
  /\ (DidTable("W") /\ Followed("W", "W") /\ pre[1].tbl.length > 0
        /\ pre[1].tbl.length = prev[1].pre.tbl.length
        /\ pre[1].tbl.target = prev[1].pre.tbl.target
        /\ wcap[1] >= 4) =>
       /\ \A k \in 1..th[1].m.n : Len(pre[1].tbl.target[k]) = pre[1].tbl.length
       /\ th[1].ret = ErrEndOfSource
       /\ sink[1] = Count32(order[1], pre[1].tbl.length)

\* two rows were written, and the Write after it has written the row count
\* and no more on a writer with room for all
C25_Witness ==
  /\ DidTable("W") /\ Followed("W", "W") /\ pre[1].tbl.length = 2
  /\ prev[1].sink = Count32(prev[1].order, 2) \o RowMajor(pre[1].tbl, NCols)
  /\ wcap[1] = 4 + MaxRows * NCols
  /\ th[1].ret = ErrEndOfSource /\ sink[1] = Count32(order[1], 2)

\* the elements a Read of l rows of n fields takes from the bytes bs, for
\* column k
ColumnOf(bs, k, l, n) == [i \in 1..l |-> bs[4 + (i - 1) * n + k]]

\* C26: the buffer of a column is emptied by apply alone, which runs when
\* every row was read: a Write leaves the buffers alone, a Read that fails
\* leaves in them what they held and the elements it read, and a Read that
\* returns nil sets each column to what its buffer held followed by the
\* elements it read.  So a Read of n rows that returns nil after a Read that
\* failed with elements in the buffers leaves the columns longer than the row
\* count.
C26_StaleBufferedElements ==
  LET n == th[1].m.n
      l == tbl.length
      IsPrefix(a, b) == Len(a) <= Len(b) /\ a = SubSeq(b, 1, Len(a))
  IN /\ DidTable("W") => tbl.buf = pre[1].tbl.buf
     /\ (DidTable("R") /\ th[1].ret # Nil) =>
          \A k \in 1..n : IsPrefix(pre[1].tbl.buf[k], tbl.buf[k])
     /\ (DidTable("R") /\ th[1].ret = Nil) =>
          \A k \in 1..n :
            /\ tbl.target[k] = pre[1].tbl.buf[k] \o ColumnOf(pre[1].src, k, l, n)
            /\ tbl.buf[k] = <<>>
     /\ (DidTable("R") /\ th[1].ret = Nil /\ Followed("R", "R")
           /\ prev[1].ret # Nil) =>
          \A k \in 1..n :
            pre[1].tbl.buf[k] # <<>> => Len(tbl.target[k]) > tbl.length

\* a Read of one row failed at its second field, and the Read of one row
\* after it has set the first column to two elements and the second to one
C26_Witness ==
  /\ DidTable("R") /\ Followed("R", "R") /\ prev[1].ret = EOF
  /\ Len(prev[1].pre.src) = 5
  /\ pre[1].tbl.buf[1] = <<prev[1].pre.src[5]>> /\ pre[1].tbl.buf[2] = <<>>
  /\ th[1].ret = Nil /\ tbl.length = 1
  /\ tbl.target[1] = <<prev[1].pre.src[5], pre[1].src[5]>>
  /\ tbl.target[2] = <<pre[1].src[6]>>

\* C27: a Read of a DataTable that fails after the row count was read has
\* set the caller's row count to the count it read and left the columns as
\* they were; when that count is not the length of every column, a Write of
\* the table as that Read left it returns ErrUnbalancedTable and writes
\* nothing.
C27_FailedReadLeavesCountChanged ==
  /\ (DidTable("R") /\ th[1].ret # Nil /\ Len(pre[1].src) >= 4) =>
       /\ tbl.length = GetUint32(order[1], SubSeq(pre[1].src, 1, 4))
       /\ tbl.target = pre[1].tbl.target
  /\ LET decoded == GetUint32(prev[1].order, SubSeq(prev[1].pre.src, 1, 4))
     IN (/\ DidTable("W") /\ Followed("R", "W") /\ prev[1].ret # Nil
         /\ Len(prev[1].pre.src) >= 4
         /\ pre[1].tbl.length = decoded
         /\ pre[1].tbl.target = prev[1].pre.tbl.target
         /\ \E k \in 1..th[1].m.n : Len(pre[1].tbl.target[k]) # decoded) =>
          th[1].ret = ErrUnbalancedTable /\ sink[1] = <<>>

\* a table of one row met a stream of two rows that ended in the second, and
\* the Write after it, on a writer with room, was refused
C27_Witness ==
  /\ DidTable("W") /\ Followed("R", "W") /\ prev[1].ret = EOF
  /\ prev[1].pre.tbl.length = 1
  /\ \A k \in Columns : Len(prev[1].pre.tbl.target[k]) = 1
  /\ pre[1].tbl.length = 2 /\ pre[1].tbl.target = prev[1].pre.tbl.target
  /\ wcap[1] = 4 + MaxRows * NCols
  /\ th[1].ret = ErrUnbalancedTable /\ sink[1] = <<>>

(* ------------- SpecFrame: reads of collections that fail -------------- *)

\* the caller's slice, count and map before the call
SetFrame ==
  /\ ~th[1].called
  /\ \E b \in Bufs, c \in {0, MaxLen}, m \in {[k \in {} |-> 0], [k \in Bytes |-> MaxByte]} :
       obj' = [obj EXCEPT !.buf = b, !.count = c, !.entries = m]
  /\ UNCHANGED <<th, tgt, src, sink, wcap, mutex, rwmutex, log, pre, tbl, order, ncalls, prev>>

FramePrograms == SlicePrograms \cup {Map(1)}

\* streams that end within a length, within the elements, within an entry of
\* a map, and streams that hold all that is read
FrameStreams(endian) ==
  {<<>>, <<1>>, <<2, 1>>, <<1, 2>>, <<0, 0>>, Count32(endian, 0),
   Count32(endian, 1), Count32(endian, 2) \o <<1>>, Count32(endian, 1) \o <<1, 2>>,
   Count32(endian, 2) \o <<1, 2, 2>>, [i \in 1..(MaxLen + 1) |-> 1]}

CallFrame ==
  \E m \in FramePrograms, endian \in {BigEndian, LittleEndian} :
    \E rd \in FrameStreams(endian) : CallWith(1, m, "R", rd, 0, endian)

NextFrame == SetFrame \/ CallFrame \/ DataStep(1) \/ MapStep(1)

SpecFrame == Init /\ [][NextFrame]_vars

\* C28: a Read of Slice, FixedBytes, DynamicSlice or Map that returns an
\* error leaves the caller's struct as it was before the call, the target
\* collection with it; a Read of LenSlice or LenBytes that returns an error
\* leaves the target as it was and has changed nothing but the count field,
\* which holds the count it read.  A Read that returns nil has replaced the
\* target.
C28_FailedReadKeepsCollection ==
  LET O == pre[1].obj
      input == pre[1].src
  IN /\ (Did("R", {"slice", "fixedbytes", "dynslice", "map"}) /\ th[1].ret # Nil) =>
          obj = O
     /\ (Did("R", {"lenslice", "lenbytes"}) /\ th[1].ret # Nil) =>
          /\ obj.buf = O.buf
          /\ obj = [O EXCEPT !.count = IF input = <<>> THEN O.count ELSE input[1]]
     /\ (Did("R", {"slice", "fixedbytes"}) /\ th[1].ret = Nil) =>
          obj.buf = SubSeq(input, 1, th[1].m.n)
     /\ Did("R", {"slice", "fixedbytes"}) =>
          (th[1].ret # Nil <=> Len(input) < th[1].m.n)

\* a Slice of two elements met a stream of one byte: the target of two other
\* elements was left alone
C28_Witness ==
  /\ Did("R", {"slice"}) /\ th[1].m.n = 2 /\ pre[1].src = <<1>>
  /\ th[1].ret = EOF /\ src[1] = <<>>
  /\ pre[1].obj.buf = <<2, 2>> /\ obj.buf = <<2, 2>>

\* a Map met a stream of two entries that ends within the second: the map
\* the target held was left alone
C28_WitnessMap ==
  /\ Did("R", {"map"}) /\ pre[1].src = Count32(LittleEndian, 2) \o <<1, 2, 2>>
  /\ order[1] = LittleEndian /\ th[1].ret = EOF
  /\ DOMAIN pre[1].obj.entries = Bytes /\ obj.entries = pre[1].obj.entries

\* a LenSlice read the count 2 and met a stream of one element: the count
\* field was changed and the target was left alone
C28_WitnessCount ==
  /\ Did("R", {"lenslice"}) /\ pre[1].src = <<2, 1>> /\ th[1].ret = EOF
  /\ pre[1].obj.count = 0 /\ obj.count = 2
  /\ pre[1].obj.buf = <<1>> /\ obj.buf = <<1>>

(* --------------- SpecEH: the wrapped mapper panics -------------------- *)

\* the wrapped mapper of t's top-level EventHandler has panicked
InnerPanicked(t) ==
  /\ th[t].called /\ th[t].m.kind = "eh"
  /\ \E k \in 1..Len(log[t]) : log[t][k] = PanicEv(th[t].m.mapper, th[t].dir)

\* C29: when the mapper an EventHandler wraps panics, the After handler of
\* the direction called, if there is one, runs once, after the panic began
\* and as the last thing before the panic leaves the EventHandler; it is
\* called with a nil error; the call returns nothing and the panic reaches
\* the caller of Read / Write.  Without an After handler none runs.
C29_AfterHookRunsOnPanic ==
  \A t \in Threads :
    InnerPanicked(t) =>
      /\ th[t].ret = None
      /\ Len(AfterEvs(t)) <= 1
      /\ TopAfter(t) = NoHook => AfterEvs(t) = <<>>
      /\ ~Running(t) =>
           LET n == Len(log[t])
           IN /\ Panicked(t)
              /\ log[t][n] = PanicEv(th[t].m, th[t].dir)
              /\ TopAfter(t) # NoHook =>
                   /\ Len(AfterEvs(t)) = 1
                   /\ AfterEvs(t)[1].h = TopAfter(t)
                   /\ AfterEvs(t)[1].arg = Nil
                   /\ log[t][n - 1] = AfterEvs(t)[1]
                   /\ log[t][n - 2] = PanicEv(th[t].m.mapper, th[t].dir)

\* a Read whose wrapped mapper panicked ended in a panic after the After
\* handler, one that returns its argument, was called with nil
C29_Witness ==
  /\ InnerPanicked(1) /\ Panicked(1) /\ th[1].dir = "R"
  /\ TopAfter(1) = ReturnsErr
  /\ Len(AfterEvs(1)) = 1 /\ AfterEvs(1)[1].arg = Nil /\ AfterEvs(1)[1].e = Nil

\* the same for a Write whose After handler returns an error: the error is
\* lost and the panic goes on
C29_WitnessWrite ==
  /\ InnerPanicked(1) /\ Panicked(1) /\ th[1].dir = "W"
  /\ TopAfter(1) = Returns(ErrTesting)
  /\ Len(AfterEvs(1)) = 1 /\ AfterEvs(1)[1].arg = Nil
  /\ AfterEvs(1)[1].e = ErrTesting /\ th[1].ret = None

(* ------------- SpecNested: Lock inside Lock, one mutex ---------------- *)

\* Lock(Lock(m, mu), mu), and Lock(m, mu) for the other goroutines
NestedPrograms ==
  {Lock(Lock(inner)) : inner \in GuardedInner} \cup {Lock(inner) : inner \in GuardedInner}

CallNested ==
  \E t \in Threads, m \in NestedPrograms :
    \/ \E rd \in {<<1>>, <<1, 2>>} : Call(t, m, "R", rd, 0)
    \/ Call(t, m, "W", <<>>, 2)

NextNested ==
  \/ CallNested
  \/ \E t \in Threads : Step(t)

SpecNested == Init /\ [][NextNested]_vars

\* t called a Lock whose wrapped mapper is a Lock
IsNested(t) == th[t].called /\ th[t].m.kind = "eh" /\ th[t].m.mapper.kind = "eh"
\* the Before handler of t's outer Lock has run
HoldsOuter(t) == IsNested(t) /\ BeforeEvs(t) # <<>>

\* C30: a Read or Write of Lock(Lock(m, mu), mu) neither returns nor ends in
\* a panic, and m is never called.  Once the outer Before handler has locked
\* mu the call stands at the Before handler of the inner Lock, which cannot
\* run; the goroutine has no step to take, mu stays locked, and no After
\* handler of the call has run.
C30_NestedLockBlocksForever ==
  \A t \in Threads :
    IsNested(t) =>
      /\ Running(t) /\ th[t].ret = None /\ ~th[t].unwinding
      /\ \A k \in 1..Len(log[t]) : log[t][k].m # th[t].m.mapper.mapper
      /\ HoldsOuter(t) =>
           /\ mutex
           /\ log[t] = <<CallEv(th[t].m, th[t].dir), BeforeEvs(t)[1],
                         CallEv(th[t].m.mapper, th[t].dir)>>
           /\ BeforeEvs(t)[1].h = MuxLock
           /\ Len(th[t].stack) = 2
           /\ Top(t).m = th[t].m.mapper /\ Top(t).pc = "start"
           /\ BeforeHook(Top(t)) = MuxLock
           /\ ~ENABLED Step(t)
           /\ \A u \in Threads \ {t} : ~HoldsOuter(u)

\* goroutine 1 stands in the inner Lock of a Read of Lock(Lock(m, mu), mu)
\* holding mu, after goroutine 2 completed a Write of Lock(m, mu)
C30_Witness ==
  /\ th[1].m = Lock(Lock(TwoBytes)) /\ th[1].dir = "R" /\ HoldsOuter(1)
  /\ Len(th[1].stack) = 2 /\ mutex /\ ~ENABLED Step(1)
  /\ th[2].m = Lock(TwoBytes) /\ th[2].dir = "W" /\ Returned(2) /\ th[2].ret = Nil

\* goroutine 2, which called Lock(m, mu), waits for the mutex goroutine 1
\* holds in Lock(Lock(m, mu), mu): no goroutine has a step to take
C30_WitnessAllBlocked ==
  /\ HoldsOuter(1)
  /\ th[2].called /\ th[2].m = Lock(TwoBytes) /\ Len(log[2]) = 1
  /\ \A t \in Threads : th[t].called /\ ~ENABLED Step(t)

====
